---- MODULE Spec2Model ----
(***************************************************************************)
(* Model of the qwsengine scripting core: the command registry, the        *)
(* command factories (from_dict), the execution context and the            *)
(* sequential ScriptExecutor with its pause / resume / stop controls.      *)
(*                                                                         *)
(* Threads.  One caller thread loads scripts and calls execute(); the      *)
(* loop of execute() is cut into steps at every point where it reads a     *)
(* flag another thread can write.  pause(), resume() and stop() are        *)
(* single assignments issued by a controlling thread and may interleave    *)
(* with any step of the loop.                                              *)
(*                                                                         *)
(* Values.  Python values held in script records are tagged records        *)
(* [t |-> "str" | "num" | "bool" | "none", v |-> ...]; a str is the        *)
(* sequence of its characters, a float is modelled by an integer (only     *)
(* its sign and zero-ness are ever inspected by the code).  A dict is a    *)
(* function whose DOMAIN is its key set, so `'k' in d` is                  *)
(* "k" \in DOMAIN d.                                                       *)
(*                                                                         *)
(* Log.  ExecutionContext.logs is kept in full; an entry is                *)
(* [level, msg, arg] where msg names the format string of the logging      *)
(* call and arg its interpolated index (the wall-clock timestamp is        *)
(* dropped).                                                               *)
(***************************************************************************)
EXTENDS Integers, Sequences, FiniteSets, TLC

VARIABLES
    registry,        \* CommandRegistry._registry : kind name -> command class
    commands,        \* ScriptExecutor.commands
    current_index,   \* ScriptExecutor.current_index
    is_running,      \* ScriptExecutor.is_running
    is_paused,       \* ScriptExecutor.is_paused
    errors,          \* ScriptExecutor.errors
    stop_on_error,   \* ExecutionContext.stop_on_error
    browser_window,  \* ExecutionContext.browser_window is not None
    logs,            \* ExecutionContext.logs
    pc,              \* position of the caller thread inside execute()
    i,               \* loop variable of execute()
    success_count,   \* local of execute()
    error_count,     \* local of execute()
    result,          \* value returned by the last completed execute()
    raised,          \* exception that left the last API call, "none" if it returned
    on_progress,     \* the on_progress argument of the current execute()
    progress,        \* calls received by the on_progress callback in this run
    script,          \* the json_data argument of the last load_from_json call
    returned,        \* the list the caller holds from its last get_errors()
    script_text,     \* the text argument of parse_simple_script
    parsed,          \* what parse_simple_script returned or raised
    saved,           \* the script_data last written by save_to_file
    load_wait,       \* the frame of a call of LoadURLCommand._wait_for_load
    split,           \* a call of SimpleScriptParser._split_command: [line, parts]
    effects          \* navigations and file writes of the current run, in order

vars == <<registry, commands, current_index, is_running, is_paused, errors,
          stop_on_error, browser_window, logs, pc, i, success_count, error_count,
          result, raised, on_progress, progress, script, returned, script_text,
          parsed, saved, load_wait, split, effects>>

\* what the operations of the executor and of the registry never touch
caller_vars == <<returned, script_text, parsed, saved, load_wait, split>>

(***************************************************************************)
(* Bounds of the model.                                                    *)
(***************************************************************************)
MaxRecords == 2      \* longest 'commands' list handed to load_from_json
MaxCtl == 2          \* pause/resume/stop entries one log may hold
MaxLoadRecords == 3  \* longest 'commands' list in the loader-only model
MaxLines == 3        \* most lines of a text handed to the line parser

(***************************************************************************)
(* Python values.                                                          *)
(***************************************************************************)
None == [t |-> "none"]
Str(s) == [t |-> "str", v |-> s]
Num(n) == [t |-> "num", v |-> n]
Bool(b) == [t |-> "bool", v |-> b]
\* a str used as a registry key (a kind name) is kept atomic
Name(n) == [t |-> "name", v |-> n]

\* Python truthiness, as used by `not url`, `filename or ...`, `if tag`.
Truthy(x) ==
    CASE x.t = "none" -> FALSE
      [] x.t = "str"  -> x.v /= <<>>
      [] x.t = "name" -> TRUE
      [] x.t = "num"  -> x.v /= 0
      [] x.t = "bool" -> x.v

\* dict.get(key, default)
Get(data, key, default) == IF key \in DOMAIN data THEN data[key] ELSE default

Digits == {"0", "1", "2", "3", "4", "5", "6", "7", "8", "9"}
DigitVal(c) ==
    CASE c = "0" -> 0 [] c = "1" -> 1 [] c = "2" -> 2 [] c = "3" -> 3
      [] c = "4" -> 4 [] c = "5" -> 5 [] c = "6" -> 6 [] c = "7" -> 7
      [] c = "8" -> 8 [] c = "9" -> 9

RECURSIVE NatOf(_)
NatOf(s) == IF s = <<>> THEN 0
            ELSE 10 * NatOf(SubSeq(s, 1, Len(s) - 1)) + DigitVal(s[Len(s)])

AllDigits(s) == s /= <<>> /\ \A k \in 1..Len(s) : s[k] \in Digits

\* str.isalnum() and str.isspace() on the characters of the model's alphabet
IsAlnum(c) == c \in Digits \cup {"a", "b", "u", "x"}
NL == "\n"
Whitespace == {" ", NL}
IsSpace(c) == c \in Whitespace

\* str.strip(chars) with chars given as a set
RECURSIVE LStrip(_, _)
LStrip(s, cs) == IF s /= <<>> /\ s[1] \in cs THEN LStrip(Tail(s), cs) ELSE s
RECURSIVE RStrip(_, _)
RStrip(s, cs) ==
    IF s /= <<>> /\ s[Len(s)] \in cs THEN RStrip(SubSeq(s, 1, Len(s) - 1), cs) ELSE s
Strip(s, cs) == RStrip(LStrip(s, cs), cs)

\* float(x) restricted to integer literals: [ok, v]; ok = FALSE stands for
\* the ValueError / TypeError float() raises.  A str is stripped of
\* surrounding whitespace first.
Float(x) ==
    CASE x.t = "num"  -> [ok |-> TRUE, v |-> x.v]
      [] x.t = "bool" -> [ok |-> TRUE, v |-> IF x.v THEN 1 ELSE 0]
      [] x.t = "none" -> [ok |-> FALSE, v |-> 0]
      [] x.t = "name" -> [ok |-> FALSE, v |-> 0]
      [] x.t = "str"  ->
            LET lit == Strip(x.v, Whitespace) IN
            IF AllDigits(lit) THEN [ok |-> TRUE, v |-> NatOf(lit)]
            ELSE IF Len(lit) > 1 /\ lit[1] \in {"-", "+"} /\ AllDigits(Tail(lit))
                 THEN [ok |-> TRUE,
                       v |-> IF lit[1] = "-" THEN 0 - NatOf(Tail(lit))
                             ELSE NatOf(Tail(lit))]
                 ELSE [ok |-> FALSE, v |-> 0]

(***************************************************************************)
(* Command classes.  A constructor or from_dict returns                    *)
(* [ok |-> TRUE, cmd |-> c], or [ok |-> FALSE, exc, msg] for the exception *)
(* it raises (every factory failure is a ValueError).                      *)
(***************************************************************************)
Built(c) == [ok |-> TRUE, cmd |-> c]
Failed(m) == [ok |-> FALSE, exc |-> "ValueError", msg |-> m]

PAGE_HTML == <<"p", "a", "g", "e", ".", "h", "t", "m", "l">>
DOT == <<".">>

\* LoadURLCommand.__init__
LoadURLCommand(url, wait_for_load) ==
    IF ~Truthy(url) THEN Failed("URL cannot be empty")
    ELSE Built([kind |-> "load_url", url |-> url, wait_for_load |-> wait_for_load])

\* variant: wait_for_load defaults to false
LoadURLCommand_from_dict_nowait(data) ==
    LET url == Get(data, "url", None) IN
    IF ~Truthy(url) THEN Failed("'url' parameter is required")
    ELSE LoadURLCommand(url, Get(data, "wait_for_load", Bool(FALSE)))

\* LoadURLCommand.from_dict
LoadURLCommand_from_dict(data) ==
    LET url == Get(data, "url", None) IN
    IF ~Truthy(url) THEN Failed("'url' parameter is required")
    ELSE LoadURLCommand(url, Get(data, "wait_for_load", Bool(TRUE)))

\* variant: zero is rejected too
PauseCommand_positive(seconds) ==
    IF seconds <= 0 THEN Failed("Seconds must be non-negative")
    ELSE Built([kind |-> "pause", seconds |-> seconds])

\* PauseCommand.__init__
PauseCommand(seconds) ==
    IF seconds < 0 THEN Failed("Seconds must be non-negative")
    ELSE Built([kind |-> "pause", seconds |-> seconds])

\* PauseCommand.from_dict
PauseCommand_from_dict(data) ==
    IF "seconds" \notin DOMAIN data THEN Failed("'seconds' parameter is required")
    ELSE LET f == Float(data["seconds"]) IN
         IF ~f.ok THEN Failed("'seconds' must be a number") ELSE PauseCommand(f.v)

\* SaveHTMLCommand.__init__
SaveHTMLCommand(filename, path) ==
    Built([kind |-> "save_html",
           filename |-> IF Truthy(filename) THEN filename ELSE Str(PAGE_HTML),
           path |-> IF Truthy(path) THEN path ELSE Str(DOT)])

\* variant: the record's tag names the file
SaveHTMLCommand_from_dict_tagged(data) ==
    SaveHTMLCommand(Get(data, "filename", Get(data, "tag", Str(PAGE_HTML))),
                    Get(data, "path", Str(DOT)))

\* SaveHTMLCommand.from_dict
SaveHTMLCommand_from_dict(data) ==
    SaveHTMLCommand(Get(data, "filename", Str(PAGE_HTML)), Get(data, "path", Str(DOT)))

KeepTagChar(c) == IsAlnum(c) \/ c = "_"

\* variant: underscores at the ends are kept
SaveTextCommand_sanitize_tag_keeping_ends(tag) ==
    IF ~Truthy(tag) THEN None
    ELSE LET s1 == Strip(tag.v, Whitespace)
             s2 == [k \in 1..Len(s1) |-> IF s1[k] = " " THEN "_" ELSE s1[k]]
             s3 == SelectSeq(s2, KeepTagChar)
             s4 == s3
         IN IF s4 /= <<>> THEN Str(s4) ELSE None

\* SaveTextCommand._sanitize_tag (tag is a str value or None)
SaveTextCommand_sanitize_tag(tag) ==
    IF ~Truthy(tag) THEN None
    ELSE LET s1 == Strip(tag.v, Whitespace)
             s2 == [k \in 1..Len(s1) |-> IF s1[k] = " " THEN "_" ELSE s1[k]]
             s3 == SelectSeq(s2, KeepTagChar)
             s4 == Strip(s3, {"_"})
         IN IF s4 /= <<>> THEN Str(s4) ELSE None

\* SaveTextCommand.__init__
SaveTextCommand(tag, folder) ==
    Built([kind |-> "save_text",
           tag |-> IF Truthy(tag) THEN SaveTextCommand_sanitize_tag(tag) ELSE None,
           folder |-> folder])

\* SaveTextCommand.from_dict
SaveTextCommand_from_dict(data) ==
    SaveTextCommand(Get(data, "tag", None), Get(data, "folder", None))

(***************************************************************************)
(* Command registry.  registry maps a kind name to the name of the class   *)
(* registered for it.                                                      *)
(***************************************************************************)
Classes == {"LoadURLCommand", "PauseCommand", "SaveHTMLCommand", "SaveTextCommand"}

from_dict(class, data) ==
    CASE class = "LoadURLCommand"  -> LoadURLCommand_from_dict(data)
      [] class = "PauseCommand"    -> PauseCommand_from_dict(data)
      [] class = "SaveHTMLCommand" -> SaveHTMLCommand_from_dict(data)
      [] class = "SaveTextCommand" -> SaveTextCommand_from_dict(data)

\* LoadURLCommand.to_dict
LoadURLCommand_to_dict(cmd) ==
    [command |-> Name("load_url"), url |-> cmd.url, wait_for_load |-> cmd.wait_for_load]

\* PauseCommand.to_dict
PauseCommand_to_dict(cmd) == [command |-> Name("pause"), seconds |-> Num(cmd.seconds)]

\* SaveHTMLCommand.to_dict
SaveHTMLCommand_to_dict(cmd) ==
    [command |-> Name("save_html"), filename |-> cmd.filename, path |-> cmd.path]

\* SaveTextCommand.to_dict
SaveTextCommand_to_dict(cmd) == [command |-> Name("save_text"), tag |-> cmd.tag]

\* cmd.to_dict()
to_dict(cmd) ==
    CASE cmd.kind = "load_url"  -> LoadURLCommand_to_dict(cmd)
      [] cmd.kind = "pause"     -> PauseCommand_to_dict(cmd)
      [] cmd.kind = "save_html" -> SaveHTMLCommand_to_dict(cmd)
      [] cmd.kind = "save_text" -> SaveTextCommand_to_dict(cmd)

\* str(cmd): ScriptCommand.__str__, overridden by SaveTextCommand
ScriptCommand_str(cmd) ==
    IF cmd.kind = "save_text"
    THEN IF Truthy(cmd.tag) THEN [class |-> "SaveText", tag |-> cmd.tag.v]
         ELSE [class |-> "SaveText"]
    ELSE [class |-> CASE cmd.kind = "load_url"  -> "LoadURLCommand"
                      [] cmd.kind = "pause"     -> "PauseCommand"
                      [] cmd.kind = "save_html" -> "SaveHTMLCommand",
          dict |-> to_dict(cmd)]

\* CommandRegistry.get: the class, or None when the name is not registered
CommandRegistry_get(reg, command_name) ==
    IF command_name.t = "name" /\ command_name.v \in DOMAIN reg
    THEN reg[command_name.v] ELSE "None"

\* the kind names of the model in the order of Python's str comparison
KindOrder == <<"click", "load_url", "pause", "save_html", "save_text">>
Rank(n) == CHOOSE k \in 1..Len(KindOrder) : KindOrder[k] = n

\* variant: the names are listed in descending order
RECURSIVE CommandRegistry_list_commands_descending(_)
CommandRegistry_list_commands_descending(names) ==
    IF names = {} THEN <<>>
    ELSE LET last == CHOOSE n \in names : \A m \in names : Rank(m) <= Rank(n)
         IN <<last>> \o CommandRegistry_list_commands_descending(names \ {last})

\* CommandRegistry.list_commands: sorted(list(keys)), names being the keys
RECURSIVE CommandRegistry_list_commands(_)
CommandRegistry_list_commands(names) ==
    IF names = {} THEN <<>>
    ELSE LET first == CHOOSE n \in names : \A m \in names : Rank(n) <= Rank(m)
         IN <<first>> \o CommandRegistry_list_commands(names \ {first})

\* CommandRegistry.create_command; the ValueError of an unknown name carries
\* the name and the listing its message is formatted from
CommandRegistry_create_command(reg, command_name, data) ==
    LET command_class == CommandRegistry_get(reg, command_name) IN
    IF command_class = "None"
    THEN [ok |-> FALSE, exc |-> "ValueError", msg |-> "Unknown command",
          name |-> command_name,
          available |-> CommandRegistry_list_commands(DOMAIN reg)]
    ELSE from_dict(command_class, data)


\* value of `script` before the first load
NoScript == <<>>
\* value of `returned` before the first get_errors()
NoReturned == [list |-> "none", items |-> <<>>]
\* values of `script_text` and `parsed` before parse_simple_script is called
NoText == <<"?">>
NoParse == [ok |-> FALSE, exc |-> "none"]
\* value of `saved` before the first save_to_file
NoSaved == <<>>
\* value of `load_wait` while _wait_for_load is not being called
NoWait == [pc |-> "none"]
\* no call of _split_command yet (no call returns an empty part)
NoSplit == [line |-> <<>>, parts |-> << <<>> >>]

\* the registrations run when the scripting package is imported
StartupRegistry ==
    [n \in {"save_html", "save_text"} |->
        IF n = "save_html" THEN "SaveHTMLCommand" ELSE "SaveTextCommand"]

(***************************************************************************)
(* Execution context.                                                      *)
(***************************************************************************)
\* ExecutionContext.log
Log(l, level, msg, arg) == Append(l, [level |-> level, msg |-> msg, arg |-> arg])

\* number of entries of log l whose message is in ms
RECURSIVE Count(_, _)
Count(l, ms) ==
    IF l = <<>> THEN 0
    ELSE Count(Tail(l), ms) + (IF Head(l).msg \in ms THEN 1 ELSE 0)

CtlMsgs == {"Script paused", "Script resumed", "Script stopped"}

\* The log is never read by the executor.  The caller is taken to clear it
\* (clear_logs) before it loads a script and, once a run has returned,
\* before anything else is called, which keeps the log to one load and one
\* run at a time.
NoRunLogged(l) == Count(l, {"Starting script execution"}) = 0
NoRunFinished(l) == Count(l, {"Script execution complete"}) = 0

(***************************************************************************)
(* Execution of one command: the exceptions its execute() can end with     *)
(* ("ok": it returns).  Every command that needs the browser raises        *)
(* RuntimeError when the context has none, and wraps any failure of the    *)
(* browser or of the file system into RuntimeError; PauseCommand only      *)
(* sleeps.                                                                 *)
(***************************************************************************)
Command_execute(cmd, has_browser) ==
    IF cmd.kind = "pause" THEN {"ok"}
    ELSE IF ~has_browser THEN {"RuntimeError"}
    ELSE {"ok", "RuntimeError"}

\* the entry a command logs last when it succeeds
CompletionMsg(cmd) ==
    CASE cmd.kind = "load_url"  -> "URL loaded successfully"
      [] cmd.kind = "pause"     -> IF cmd.seconds > 0 THEN "Pause complete"
                                   ELSE "Pause duration is 0 seconds"
      [] cmd.kind = "save_html" -> "HTML saved successfully"
      [] cmd.kind = "save_text" -> "Saved TEXT to"

\* SaveTextCommand._generate_filename: "{timestamp}.{ms}_{tag}.txt" or
\* "{timestamp}.{ms}.txt"; the clock's reading is kept symbolic
SaveTextCommand_generate_filename(tag) ==
    IF Truthy(tag) THEN [stamp |-> "now", tag |-> tag.v, ext |-> ".txt"]
    ELSE [stamp |-> "now", ext |-> ".txt"]

\* the folder SaveTextCommand.execute falls back to (no settings manager)
CAPTURES == Name("./output/captures")

\* what command number index does to the browser or the file system
\* when it gets that far
Effect(cmd, index) ==
    CASE cmd.kind = "load_url" ->
            [op |-> "navigate", url |-> cmd.url, by |-> index]
      [] cmd.kind = "save_html" ->
            [op |-> "write", path |-> cmd.path, filename |-> cmd.filename, by |-> index]
      [] cmd.kind = "save_text" ->
            [op |-> "write",
             path |-> IF Truthy(cmd.folder) THEN cmd.folder ELSE CAPTURES,
             filename |-> SaveTextCommand_generate_filename(cmd.tag), by |-> index]

\* variant: the surface is not tested before the command acts
Effects_unchecked(cmd, index, outcome, has_browser) ==
    IF cmd.kind = "pause" THEN {<<>>}
    ELSE IF outcome = "ok" THEN {<<Effect(cmd, index)>>}
    ELSE {<<>>, <<Effect(cmd, index)>>}

\* the effects a call of cmd.execute may leave, given how it ends: none for
\* pause and none without a browser window (the test comes first); the
\* command's effect when it succeeds; when it fails with a browser window
\* the failure may have come before or after the effect
Effects(cmd, index, outcome, has_browser) ==
    IF cmd.kind = "pause" \/ ~has_browser THEN {<<>>}
    ELSE IF outcome = "ok" THEN {<<Effect(cmd, index)>>}
    ELSE {<<>>, <<Effect(cmd, index)>>}

\* variant: the clause names ValueError only
ExceptionClasses_narrow == {"ValueError"}

\* classes an `except Exception` clause catches
ExceptionClasses == {"Exception", "RuntimeError", "ValueError", "TypeError"}

(***************************************************************************)
(* ScriptExecutor.load_from_json                                           *)
(***************************************************************************)
\* one iteration of the loading loop: [ok, cmd] or [ok = FALSE, msg]
LoadRecord(reg, cmd_data) ==
    IF "command" \notin DOMAIN cmd_data THEN Failed("missing 'command' key")
    ELSE CommandRegistry_create_command(reg, cmd_data["command"], cmd_data)

\* variant: the loop ends at the first record that fails
RECURSIVE LoadLoop_abort(_, _, _, _)
LoadLoop_abort(reg, recs, k, acc) ==
    IF k > Len(recs) THEN acc
    ELSE LET r == LoadRecord(reg, recs[k]) IN
         IF r.ok
         THEN LoadLoop_abort(reg, recs, k + 1, [acc EXCEPT !.commands = Append(@, r.cmd)])
         ELSE [acc EXCEPT
                 !.errors = Append(@, [type |-> "str", index |-> k - 1,
                                       message |-> r.msg]),
                 !.logs = Log(@, "ERROR", "Error loading command", k - 1)]

\* the loading loop over records k..Len(recs) (k is 1-based, the code's i is k-1)
RECURSIVE LoadLoop(_, _, _, _)
LoadLoop(reg, recs, k, acc) ==
    IF k > Len(recs) THEN acc
    ELSE LET r == LoadRecord(reg, recs[k]) IN
         LoadLoop(reg, recs, k + 1,
             IF r.ok
             THEN [acc EXCEPT !.commands = Append(@, r.cmd)]
             ELSE [acc EXCEPT
                     !.errors = Append(@, [type |-> "str", index |-> k - 1,
                                           message |-> r.msg]),
                     !.logs = Log(@, "ERROR", "Error loading command", k - 1)])

\* variant: the data is validated before the lists are replaced
load_from_json_validating_first(json_data) ==
    /\ pc = "idle"
    /\ logs = <<>>
    /\ script' = json_data
    /\ IF "commands" \notin DOMAIN json_data
       THEN /\ raised' = "ValueError"
            /\ UNCHANGED <<commands, errors, logs>>
       ELSE LET r == LoadLoop(registry, json_data["commands"], 1,
                        [commands |-> <<>>, errors |-> <<>>, logs |-> logs])
            IN /\ commands' = r.commands
               /\ errors' = r.errors
               /\ logs' = r.logs
               /\ raised' = "none"
    /\ UNCHANGED <<effects, caller_vars, registry, current_index, is_running, is_paused, stop_on_error,
                   browser_window, pc, i, success_count, error_count, result,
                   on_progress, progress>>

load_from_json(json_data) ==
    /\ pc = "idle"
    /\ logs = <<>>
    /\ script' = json_data
    /\ IF "commands" \notin DOMAIN json_data
       THEN /\ commands' = <<>>
            /\ errors' = <<>>
            /\ raised' = "ValueError"
            /\ UNCHANGED logs
       ELSE LET r == LoadLoop(registry, json_data["commands"], 1,
                        [commands |-> <<>>, errors |-> <<>>, logs |-> logs])
            IN /\ commands' = r.commands
               /\ errors' = r.errors
               /\ logs' = r.logs
               /\ raised' = "none"
    /\ UNCHANGED <<effects, caller_vars, registry, current_index, is_running, is_paused, stop_on_error,
                   browser_window, pc, i, success_count, error_count, result,
                   on_progress, progress>>

(***************************************************************************)
(* ScriptExecutor.execute, cut at the reads of is_paused / is_running.     *)
(*   "idle"        not inside execute()                                    *)
(*   "loop"        at the head of the for loop                             *)
(*   "pause_wait"  in the while loop of the pause checkpoint               *)
(*   "stop_check"  at the test of the stop checkpoint                      *)
(*   "try"         entering the try block                                  *)
(*   "cmd"         inside cmd.execute(context)                             *)
(*   "after"       behind the loop                                         *)
(***************************************************************************)
\* variant: the error list is not reset
execute_keeping_errors(cb) ==
    /\ pc = "idle"
    /\ NoRunLogged(logs)
    /\ is_running' = TRUE
    /\ errors' = errors
    /\ logs' = Log(logs, "INFO", "Starting script execution", Len(commands))
    /\ success_count' = 0
    /\ error_count' = 0
    /\ i' = 0
    /\ on_progress' = cb
    /\ progress' = <<>>
    /\ raised' = "none"
    /\ result' = "none"
    /\ effects' = <<>>
    /\ pc' = "loop"
    /\ UNCHANGED <<caller_vars, script, registry, commands, current_index, is_paused,
                   stop_on_error, browser_window>>

\* variant: the call clears the pause flag
execute_clearing_pause(cb) ==
    /\ pc = "idle"
    /\ NoRunLogged(logs)
    /\ is_running' = TRUE
    /\ is_paused' = FALSE
    /\ errors' = <<>>
    /\ logs' = Log(logs, "INFO", "Starting script execution", Len(commands))
    /\ success_count' = 0
    /\ error_count' = 0
    /\ i' = 0
    /\ on_progress' = cb
    /\ progress' = <<>>
    /\ raised' = "none"
    /\ result' = "none"
    /\ effects' = <<>>
    /\ pc' = "loop"
    /\ UNCHANGED <<caller_vars, script, registry, commands, current_index, stop_on_error,
                   browser_window>>

\* variant: the call leaves is_running as it finds it
execute_keeping_stop(cb) ==
    /\ pc = "idle"
    /\ NoRunLogged(logs)
    /\ is_running' = is_running
    /\ errors' = <<>>
    /\ logs' = Log(logs, "INFO", "Starting script execution", Len(commands))
    /\ success_count' = 0
    /\ error_count' = 0
    /\ i' = 0
    /\ on_progress' = cb
    /\ progress' = <<>>
    /\ raised' = "none"
    /\ result' = "none"
    /\ effects' = <<>>
    /\ pc' = "loop"
    /\ UNCHANGED <<caller_vars, script, registry, commands, current_index, is_paused, stop_on_error,
                   browser_window>>

\* the call and the lines before the loop; cb tells whether on_progress is given
execute(cb) ==
    /\ pc = "idle"
    /\ NoRunLogged(logs)
    /\ is_running' = TRUE
    /\ errors' = <<>>
    /\ logs' = Log(logs, "INFO", "Starting script execution", Len(commands))
    /\ success_count' = 0
    /\ error_count' = 0
    /\ i' = 0
    /\ on_progress' = cb
    /\ progress' = <<>>
    /\ raised' = "none"
    /\ result' = "none"
    /\ effects' = <<>>
    /\ pc' = "loop"
    /\ UNCHANGED <<caller_vars, script, registry, commands, current_index, is_paused, stop_on_error,
                   browser_window>>

\* for i, cmd in enumerate(self.commands): self.current_index = i
execute_loop ==
    /\ pc = "loop"
    /\ IF i < Len(commands)
       THEN /\ current_index' = i
            /\ pc' = "pause_wait"
       ELSE /\ pc' = "after"
            /\ UNCHANGED current_index
    /\ UNCHANGED <<effects, caller_vars, script, registry, commands, is_running, is_paused, errors, stop_on_error,
                   browser_window, logs, i, success_count, error_count, result,
                   raised, on_progress, progress>>

\* variant: the wait ignores is_running
PauseBlocks_ignoring_stop(paused, running) == paused

\* the condition of the pause checkpoint's while loop
PauseBlocks(paused, running) == paused /\ running

\* while self.is_paused and self.is_running: time.sleep(0.1)
\* (an iteration that sleeps leaves the state unchanged)
execute_pause_wait ==
    /\ pc = "pause_wait"
    /\ ~PauseBlocks(is_paused, is_running)
    /\ pc' = "stop_check"
    /\ UNCHANGED <<effects, caller_vars, script, registry, commands, current_index, is_running, is_paused, errors,
                   stop_on_error, browser_window, logs, i, success_count,
                   error_count, result, raised, on_progress, progress>>

\* variant: the stop test is missing
execute_stop_check_missing ==
    /\ pc = "stop_check"
    /\ pc' = "try"
    /\ UNCHANGED <<effects, caller_vars, script, registry, commands, current_index, is_running, is_paused,
                   errors, stop_on_error, browser_window, logs, i, success_count,
                   error_count, result, raised, on_progress, progress>>

\* if not self.is_running: log, break
execute_stop_check ==
    /\ pc = "stop_check"
    /\ IF ~is_running
       THEN /\ logs' = Log(logs, "INFO", "Script execution stopped by user", i)
            /\ pc' = "after"
       ELSE /\ pc' = "try"
            /\ UNCHANGED logs
    /\ UNCHANGED <<effects, caller_vars, script, registry, commands, current_index, is_running, is_paused, errors,
                   stop_on_error, browser_window, i, success_count, error_count,
                   result, raised, on_progress, progress>>

\* variant: every failure halts the run
execute_except_halt(exc) ==
    IF exc \in ExceptionClasses
    THEN /\ error_count' = error_count + 1
         /\ errors' = Append(errors, [type |-> "tuple", index |-> i,
                                      command |-> commands[i + 1], message |-> exc])
         /\ IF TRUE
            THEN /\ logs' = Log(Log(logs, "ERROR", "Command failed", i),
                                "INFO", "Stopping on error", i)
                 /\ pc' = "after"
                 /\ UNCHANGED i
            ELSE /\ logs' = Log(logs, "ERROR", "Command failed", i)
                 /\ pc' = "loop"
                 /\ i' = i + 1
         /\ UNCHANGED <<raised, result>>
    ELSE /\ raised' = exc
         /\ pc' = "idle"
         /\ UNCHANGED <<error_count, errors, logs, i, result>>

\* variant: no failure halts the run
execute_except_continue(exc) ==
    IF exc \in ExceptionClasses
    THEN /\ error_count' = error_count + 1
         /\ errors' = Append(errors, [type |-> "tuple", index |-> i,
                                      command |-> commands[i + 1], message |-> exc])
         /\ IF FALSE
            THEN /\ logs' = Log(Log(logs, "ERROR", "Command failed", i),
                                "INFO", "Stopping on error", i)
                 /\ pc' = "after"
                 /\ UNCHANGED i
            ELSE /\ logs' = Log(logs, "ERROR", "Command failed", i)
                 /\ pc' = "loop"
                 /\ i' = i + 1
         /\ UNCHANGED <<raised, result>>
    ELSE /\ raised' = exc
         /\ pc' = "idle"
         /\ UNCHANGED <<error_count, errors, logs, i, result>>

\* variant: after a failure the loop stays at the same index
execute_except_retry(exc) ==
    IF exc \in ExceptionClasses
    THEN /\ error_count' = error_count + 1
         /\ errors' = Append(errors, [type |-> "tuple", index |-> i,
                                      command |-> commands[i + 1], message |-> exc])
         /\ IF stop_on_error
            THEN /\ logs' = Log(Log(logs, "ERROR", "Command failed", i),
                                "INFO", "Stopping on error", i)
                 /\ pc' = "after"
                 /\ UNCHANGED i
            ELSE /\ logs' = Log(logs, "ERROR", "Command failed", i)
                 /\ pc' = "loop"
                 /\ i' = i
         /\ UNCHANGED <<raised, result>>
    ELSE /\ raised' = exc
         /\ pc' = "idle"
         /\ UNCHANGED <<error_count, errors, logs, i, result>>

\* the except clause of the loop body for exception exc raised at index i
execute_except(exc) ==
    IF exc \in ExceptionClasses
    THEN /\ error_count' = error_count + 1
         /\ errors' = Append(errors, [type |-> "tuple", index |-> i,
                                      command |-> commands[i + 1], message |-> exc])
         /\ IF stop_on_error
            THEN /\ logs' = Log(Log(logs, "ERROR", "Command failed", i),
                                "INFO", "Stopping on error", i)
                 /\ pc' = "after"
                 /\ UNCHANGED i
            ELSE /\ logs' = Log(logs, "ERROR", "Command failed", i)
                 /\ pc' = "loop"
                 /\ i' = i + 1
         /\ UNCHANGED <<raised, result>>
    ELSE \* not caught: the exception leaves execute()
         /\ raised' = exc
         /\ pc' = "idle"
         /\ UNCHANGED <<error_count, errors, logs, i, result>>

\* variant: the callback is given the position counted from one
execute_try_one_based(outcome) ==
    /\ pc = "try"
    /\ progress' = IF on_progress THEN Append(progress,
                           <<i + 1, Len(commands), ScriptCommand_str(commands[i + 1])>>)
                   ELSE progress
    /\ IF on_progress /\ outcome /= "ok"
       THEN /\ execute_except(outcome)
       ELSE /\ logs' = Log(logs, "INFO", "Executing", i)
            /\ pc' = "cmd"
            /\ UNCHANGED <<error_count, errors, i, raised, result>>
    /\ UNCHANGED <<effects, caller_vars, script, registry, commands, current_index, is_running, is_paused,
                   stop_on_error, browser_window, success_count, on_progress>>

\* variant: the callback is called outside the try block, its exception
\* leaves execute()
execute_try_unguarded(outcome) ==
    /\ pc = "try"
    /\ progress' = IF on_progress THEN Append(progress,
                           <<i, Len(commands), ScriptCommand_str(commands[i + 1])>>)
                   ELSE progress
    /\ IF on_progress /\ outcome /= "ok"
       THEN /\ raised' = outcome
            /\ pc' = "idle"
            /\ UNCHANGED <<error_count, errors, logs, i, result>>
       ELSE /\ logs' = Log(logs, "INFO", "Executing", i)
            /\ pc' = "cmd"
            /\ UNCHANGED <<error_count, errors, i, raised, result>>
    /\ UNCHANGED <<effects, caller_vars, script, registry, commands, current_index, is_running, is_paused,
                   stop_on_error, browser_window, success_count, on_progress>>

\* on_progress(i, len(self.commands), str(cmd)) when given, then the
\* "Executing" entry; outcome is what the callback does ("ok": it returns)
execute_try(outcome) ==
    /\ pc = "try"
    /\ progress' = IF on_progress THEN Append(progress,
                           <<i, Len(commands), ScriptCommand_str(commands[i + 1])>>)
                   ELSE progress
    /\ IF on_progress /\ outcome /= "ok"
       THEN /\ execute_except(outcome)
       ELSE /\ logs' = Log(logs, "INFO", "Executing", i)
            /\ pc' = "cmd"
            /\ UNCHANGED <<error_count, errors, i, raised, result>>
    /\ UNCHANGED <<effects, caller_vars, script, registry, commands, current_index, is_running, is_paused,
                   stop_on_error, browser_window, success_count, on_progress>>

\* variant: a command that succeeds while the pause flag is set is run again
execute_cmd_again_when_paused ==
    /\ pc = "cmd"
    /\ \E outcome \in Command_execute(commands[i + 1], browser_window) :
       \E eff \in Effects(commands[i + 1], i, outcome, browser_window) :
         /\ effects' = effects \o eff
         /\ IF outcome = "ok"
            THEN /\ logs' = Log(logs, "INFO", CompletionMsg(commands[i + 1]), i)
                 /\ success_count' = success_count + 1
                 /\ i' = IF is_paused THEN i ELSE i + 1
                 /\ pc' = "loop"
                 /\ UNCHANGED <<error_count, errors, raised, result>>
            ELSE /\ execute_except(outcome)
                 /\ UNCHANGED success_count
    /\ UNCHANGED <<caller_vars, script, registry, commands, current_index, is_running, is_paused,
                   stop_on_error, browser_window, on_progress, progress>>

\* cmd.execute(self.context) ends: success_count += 1, or the except clause
execute_cmd ==
    /\ pc = "cmd"
    /\ \E outcome \in Command_execute(commands[i + 1], browser_window) :
       \E eff \in Effects(commands[i + 1], i, outcome, browser_window) :
         /\ effects' = effects \o eff
         /\ IF outcome = "ok"
            THEN /\ logs' = Log(logs, "INFO", CompletionMsg(commands[i + 1]), i)
                 /\ success_count' = success_count + 1
                 /\ i' = i + 1
                 /\ pc' = "loop"
                 /\ UNCHANGED <<error_count, errors, raised, result>>
            ELSE /\ execute_except(outcome)
                 /\ UNCHANGED success_count
    /\ UNCHANGED <<caller_vars, script, registry, commands, current_index, is_running, is_paused,
                   stop_on_error, browser_window, on_progress, progress>>

\* variant: a single error still counts as success
execute_result_lenient(errs, n_errors) == IF n_errors <= 1 THEN "True" ELSE "False"

\* variant: a run that did not reach the end of the list is not a success
execute_result_complete(errs, n_errors) ==
    IF n_errors = 0 /\ i = Len(commands) THEN "True" ELSE "False"

\* the value execute() returns
execute_result(errs, n_errors) == IF n_errors = 0 THEN "True" ELSE "False"

\* self.is_running = False; summary; return error_count == 0
execute_return ==
    /\ pc = "after"
    /\ is_running' = FALSE
    /\ logs' = Log(logs, "INFO", "Script execution complete",
                   <<success_count, error_count>>)
    /\ result' = execute_result(errors, error_count)
    /\ pc' = "idle"
    \* the frame of the call is gone
    /\ i' = 0
    /\ success_count' = 0
    /\ error_count' = 0
    /\ on_progress' = FALSE
    /\ UNCHANGED <<effects, caller_vars, script, registry, commands, current_index, is_paused, errors,
                   stop_on_error, browser_window, raised, progress>>

(***************************************************************************)
(* pause / resume / stop, callable at any time from the controlling thread *)
(***************************************************************************)
pause ==
    /\ NoRunFinished(logs)
    /\ Count(logs, CtlMsgs) < MaxCtl
    /\ is_paused' = TRUE
    /\ logs' = Log(logs, "INFO", "Script paused", 0)
    /\ UNCHANGED <<effects, caller_vars, script, registry, commands, current_index, is_running, errors,
                   stop_on_error, browser_window, pc, i, success_count, error_count,
                   result, raised, on_progress, progress>>

resume ==
    /\ NoRunFinished(logs)
    /\ Count(logs, CtlMsgs) < MaxCtl
    /\ is_paused' = FALSE
    /\ logs' = Log(logs, "INFO", "Script resumed", 0)
    /\ UNCHANGED <<effects, caller_vars, script, registry, commands, current_index, is_running, errors,
                   stop_on_error, browser_window, pc, i, success_count, error_count,
                   result, raised, on_progress, progress>>

stop ==
    /\ NoRunFinished(logs)
    /\ Count(logs, CtlMsgs) < MaxCtl
    /\ is_running' = FALSE
    /\ logs' = Log(logs, "INFO", "Script stopped", 0)
    /\ UNCHANGED <<effects, caller_vars, script, registry, commands, current_index, is_paused, errors,
                   stop_on_error, browser_window, pc, i, success_count, error_count,
                   result, raised, on_progress, progress>>

(***************************************************************************)
(* Operations of the caller between runs.                                  *)
(***************************************************************************)
\* context.stop_on_error = b
set_stop_on_error(b) ==
    /\ pc = "idle"
    /\ NoRunFinished(logs)
    /\ stop_on_error /= b
    /\ stop_on_error' = b
    /\ UNCHANGED <<effects, caller_vars, script, registry, commands, current_index, is_running, is_paused, errors,
                   browser_window, logs, pc, i, success_count, error_count, result,
                   raised, on_progress, progress>>

\* ExecutionContext.clear_logs
clear_logs ==
    /\ pc = "idle"
    /\ logs /= <<>>
    /\ logs' = <<>>
    /\ UNCHANGED <<effects, caller_vars, script, registry, commands, current_index, is_running, is_paused, errors,
                   stop_on_error, browser_window, pc, i, success_count, error_count,
                   result, raised, on_progress, progress>>

(***************************************************************************)
(* ScriptExecutor.save_to_file; the file is kept as the script_data        *)
(* dumped into it.  One save per log, as for runs.                         *)
(***************************************************************************)
save_to_file ==
    /\ pc = "idle"
    /\ Count(logs, {"Saved script to"}) = 0
    /\ saved' = [version |-> "1.0",
                 commands |-> [k \in 1..Len(commands) |-> to_dict(commands[k])]]
    /\ logs' = Log(logs, "INFO", "Saved script to", 0)
    /\ UNCHANGED <<split, effects, load_wait, returned, script_text, parsed, script, registry,
                   commands, current_index, is_running, is_paused, errors,
                   stop_on_error, browser_window, pc, i, success_count, error_count,
                   result, raised, on_progress, progress>>

(***************************************************************************)
(* get_progress / get_errors.  A list handed to the caller is             *)
(* [list, items]: `list` names the object the caller's reference points   *)
(* to ("copy": a list of its own, "self.errors": the executor's list),    *)
(* `items` its contents.                                                   *)
(***************************************************************************)
\* variant: the flag reports whether a call of execute() is in progress
get_progress_in_call(index, cmds, running) == <<index, Len(cmds), pc /= "idle">>

\* ScriptExecutor.get_progress: (current_index, len(commands), is_running)
get_progress(index, cmds, running) == <<index, Len(cmds), running>>

\* variant: the live list is handed out
get_errors_live(errs) == [list |-> "self.errors", items |-> errs]

\* ScriptExecutor.get_errors: self.errors.copy()
get_errors(errs) == [list |-> "copy", items |-> errs]

\* errs = executor.get_errors(), called by the caller between runs
call_get_errors ==
    /\ pc = "idle"
    /\ returned' = get_errors(errors)
    /\ returned' /= returned
    /\ UNCHANGED <<split, effects, saved, load_wait, script_text, parsed, script, registry, commands, current_index,
                   is_running, is_paused, errors, stop_on_error, browser_window, logs,
                   pc, i, success_count, error_count, result, raised, on_progress,
                   progress>>

\* an entry the caller puts into the list it holds
FOREIGN == [type |-> "foreign"]

\* the caller changes the list it holds to new_items; the executor's list
\* changes with it exactly when it is the same object
mutate_returned(new_items) ==
    /\ pc = "idle"
    /\ returned /= NoReturned
    /\ returned' = [returned EXCEPT !.items = new_items]
    /\ errors' = IF returned.list = "self.errors" THEN new_items ELSE errors
    /\ UNCHANGED <<split, effects, saved, load_wait, script_text, parsed, script, registry, commands, current_index,
                   is_running, is_paused, stop_on_error, browser_window, logs,
                   pc, i, success_count, error_count, result, raised, on_progress,
                   progress>>

\* errs.append(x)
returned_append ==
    /\ Len(returned.items) <= MaxRecords
    /\ mutate_returned(Append(returned.items, FOREIGN))

\* errs.pop(0)
returned_pop ==
    /\ returned.items /= <<>>
    /\ mutate_returned(Tail(returned.items))

\* errs.clear()
returned_clear ==
    /\ returned.items /= <<>>
    /\ mutate_returned(<<>>)

(***************************************************************************)
(* CommandRegistry.register / unregister.  Registration belongs to process *)
(* start: the model lets the registry change only before a script is       *)
(* loaded.                                                                 *)
(***************************************************************************)
\* the registrations written in the package: kind name -> class
Registrations ==
    [n \in {"load_url", "pause", "save_html", "save_text"} |->
        CASE n = "load_url"  -> "LoadURLCommand"
          [] n = "pause"     -> "PauseCommand"
          [] n = "save_html" -> "SaveHTMLCommand"
          [] n = "save_text" -> "SaveTextCommand"]

\* variant: a second registration replaces the first
CommandRegistry_register_overwrite(command_name, command_class) ==
    /\ pc = "idle"
    /\ script = NoScript
    /\ registry' = [n \in DOMAIN registry \cup {command_name} |->
                       IF n = command_name THEN command_class ELSE registry[n]]
    /\ raised' = "none"
    /\ UNCHANGED <<effects, caller_vars, commands, current_index, is_running, is_paused, errors,
                   stop_on_error, browser_window, logs, pc, i, success_count,
                   error_count, result, on_progress, progress, script>>

CommandRegistry_register(command_name, command_class) ==
    /\ pc = "idle"
    /\ script = NoScript
    /\ IF command_name \in DOMAIN registry
       THEN /\ raised' = "ValueError"
            /\ UNCHANGED registry
       ELSE /\ registry' = [n \in DOMAIN registry \cup {command_name} |->
                               IF n = command_name THEN command_class ELSE registry[n]]
            /\ raised' = "none"
    /\ UNCHANGED <<effects, caller_vars, commands, current_index, is_running, is_paused, errors,
                   stop_on_error, browser_window, logs, pc, i, success_count,
                   error_count, result, on_progress, progress, script>>

CommandRegistry_unregister(command_name) ==
    /\ pc = "idle"
    /\ script = NoScript
    /\ command_name \in DOMAIN registry
    /\ registry' = [n \in DOMAIN registry \ {command_name} |-> registry[n]]
    /\ raised' = "none"
    /\ UNCHANGED <<effects, caller_vars, commands, current_index, is_running, is_paused, errors,
                   stop_on_error, browser_window, logs, pc, i, success_count,
                   error_count, result, on_progress, progress, script>>

(***************************************************************************)
(* Script data handed to load_from_json.                                   *)
(***************************************************************************)
RECURSIVE SeqsUpTo(_, _)
SeqsUpTo(S, n) ==
    IF n = 0 THEN {<<>>}
    ELSE LET shorter == SeqsUpTo(S, n - 1) IN
         shorter \cup {Append(q, x) : q \in {r \in shorter : Len(r) = n - 1}, x \in S}

Scripts(S, n) ==
    {[version |-> "1.0", commands |-> q] : q \in SeqsUpTo(S, n)}
        \cup {[version |-> "1.0"]}

\* records of the run model: one that loads and one without 'command'
RunRecords ==
    { [command |-> Name("save_html")],
      [url |-> Str(<<"u">>)] }

RunScripts == Scripts(RunRecords, MaxRecords)

(***************************************************************************)
(* The executor: construction, then loads, runs and controls.              *)
(***************************************************************************)
Init ==
    /\ registry = StartupRegistry
    /\ commands = <<>>
    /\ current_index = 0
    /\ is_running = FALSE
    /\ is_paused = FALSE
    /\ errors = <<>>
    /\ stop_on_error = FALSE
    /\ browser_window \in BOOLEAN
    /\ logs = <<>>
    /\ pc = "idle"
    /\ i = 0
    /\ success_count = 0
    /\ error_count = 0
    /\ result = "none"
    /\ raised = "none"
    /\ on_progress = FALSE
    /\ progress = <<>>
    /\ script = NoScript
    /\ returned = NoReturned
    /\ script_text = NoText
    /\ parsed = NoParse
    /\ saved = NoSaved
    /\ load_wait = NoWait
    /\ split = NoSplit
    /\ effects = <<>>

Next ==
    \/ \E json_data \in RunScripts : load_from_json(json_data)
    \/ \E cb \in BOOLEAN : execute(cb)
    \/ execute_loop
    \/ execute_pause_wait
    \/ execute_stop_check
    \/ execute_try("ok")
    \/ execute_cmd
    \/ execute_return
    \/ pause
    \/ resume
    \/ stop
    \/ \E b \in BOOLEAN : set_stop_on_error(b)
    \/ clear_logs

Spec == Init /\ [][Next]_vars

\* the steps of the thread inside execute()
ExecStep ==
    \/ execute_loop
    \/ execute_pause_wait
    \/ execute_stop_check
    \/ execute_try("ok")
    \/ execute_cmd
    \/ execute_return

\* the thread inside execute() goes on: sleeps end and commands return
SpecFair == Init /\ [][Next]_vars /\ WF_vars(ExecStep)

\* what an on_progress callback may do: return, or raise an Exception
CallbackOutcomes == {"ok", "ValueError"}

\* runs whose callback may fail, stopped at any time from the other thread
NextCallback ==
    \/ \E json_data \in RunScripts : load_from_json(json_data)
    \/ \E cb \in BOOLEAN : execute(cb)
    \/ execute_loop
    \/ execute_pause_wait
    \/ execute_stop_check
    \/ \E outcome \in CallbackOutcomes : execute_try(outcome)
    \/ execute_cmd
    \/ execute_return
    \/ stop
    \/ \E b \in BOOLEAN : set_stop_on_error(b)
    \/ clear_logs

SpecCallback == Init /\ [][NextCallback]_vars

(***************************************************************************)
(* The loader alone, over a wider choice of records and registries.        *)
(***************************************************************************)
LoadRecords ==
    { [command |-> Name("save_text"), tag |-> Str(<<"a">>)],
      [command |-> Name("pause"), seconds |-> Num(1)],
      [command |-> Name("pause"), seconds |-> Num(0 - 1)],
      [command |-> Name("load_url")],
      [command |-> Name("click")],
      [url |-> Str(<<"u">>)] }

LoadScripts == Scripts(LoadRecords, MaxLoadRecords)

\* the register calls tried: those of the package, and one that gives the
\* name 'pause' to another class
RegisterCalls ==
    {<<n, Registrations[n]>> : n \in DOMAIN Registrations}
        \cup {<<"pause", "LoadURLCommand">>}

NextLoad ==
    \/ \E c \in RegisterCalls : CommandRegistry_register(c[1], c[2])
    \/ \E n \in DOMAIN Registrations : CommandRegistry_unregister(n)
    \/ \E json_data \in LoadScripts : load_from_json(json_data)

SpecLoad == Init /\ [][NextLoad]_vars

(***************************************************************************)
(* The error list: loads and runs of the caller, who reads the error list  *)
(* between them and does what it likes with the list it was given.         *)
(***************************************************************************)
NextErrors ==
    \/ \E json_data \in RunScripts : load_from_json(json_data)
    \/ execute(FALSE)
    \/ execute_loop
    \/ execute_pause_wait
    \/ execute_stop_check
    \/ execute_try("ok")
    \/ execute_cmd
    \/ execute_return
    \/ clear_logs
    \/ call_get_errors
    \/ returned_append
    \/ returned_pop
    \/ returned_clear

SpecErrors == Init /\ [][NextErrors]_vars

(***************************************************************************)
(* simple_script_parser.  A text is the sequence of its characters.        *)
(***************************************************************************)
QUOTE == "\""
HASH == "#"

\* position of the first c in s, 0 when there is none
IndexOf(s, c) ==
    IF \E p \in 1..Len(s) : s[p] = c
    THEN CHOOSE p \in 1..Len(s) : s[p] = c /\ \A q \in 1..(p - 1) : s[q] /= c
    ELSE 0

\* str.split(sep) for a one-character sep
RECURSIVE Split(_, _)
Split(s, sep) ==
    LET p == IndexOf(s, sep) IN
    IF p = 0 THEN <<s>>
    ELSE <<SubSeq(s, 1, p - 1)>> \o Split(SubSeq(s, p + 1, Len(s)), sep)

\* sep.join(parts)
RECURSIVE Join(_, _)
Join(parts, sep) ==
    IF parts = <<>> THEN <<>>
    ELSE IF Len(parts) = 1 THEN parts[1]
    ELSE parts[1] \o sep \o Join(Tail(parts), sep)

\* str.lower() on the letters of the model's alphabet
UPPER == <<"A", "C", "D", "E", "H", "I", "J", "K", "L", "M", "N", "O", "S", "T", "V", "W", "X">>
LOWER == <<"a", "c", "d", "e", "h", "i", "j", "k", "l", "m", "n", "o", "s", "t", "v", "w", "x">>
LowerChar(c) ==
    IF \E k \in 1..Len(UPPER) : UPPER[k] = c
    THEN LOWER[CHOOSE k \in 1..Len(UPPER) : UPPER[k] = c]
    ELSE c
Lower(s) == [k \in 1..Len(s) |-> LowerChar(s[k])]

\* the keywords
W_load == <<"l", "o", "a", "d">>
W_wait == <<"w", "a", "i", "t">>
W_save == <<"s", "a", "v", "e">>
W_html == <<"h", "t", "m", "l">>
W_text == <<"t", "e", "x", "t">>
W_nowait == <<"n", "o", "w", "a", "i", "t">>

\* variant: the quote characters stay in the parts
SimpleScriptParser_split_command_keeping_quotes(line) ==
    LET step(st, char) ==
            IF IsSpace(char) /\ ~st.in_quotes
            THEN IF st.current /= <<>>
                 THEN [st EXCEPT !.parts = Append(@, st.current), !.current = <<>>]
                 ELSE st
            ELSE [st EXCEPT !.current = Append(@, char),
                            !.in_quotes = IF char = QUOTE THEN ~@ ELSE @]
        F[n \in 0..Len(line)] ==
            IF n = 0 THEN [parts |-> <<>>, current |-> <<>>, in_quotes |-> FALSE]
            ELSE step(F[n - 1], line[n])
        end == F[Len(line)]
    IN IF end.current /= <<>> THEN Append(end.parts, end.current) ELSE end.parts

\* SimpleScriptParser._split_command: the loop over the characters of line
SimpleScriptParser_split_command(line) ==
    LET step(st, char) ==
            IF char = QUOTE THEN [st EXCEPT !.in_quotes = ~@]
            ELSE IF IsSpace(char) /\ ~st.in_quotes
                 THEN IF st.current /= <<>>
                      THEN [st EXCEPT !.parts = Append(@, st.current), !.current = <<>>]
                      ELSE st
                 ELSE [st EXCEPT !.current = Append(@, char)]
        F[n \in 0..Len(line)] ==
            IF n = 0 THEN [parts |-> <<>>, current |-> <<>>, in_quotes |-> FALSE]
            ELSE step(F[n - 1], line[n])
        end == F[Len(line)]
    IN IF end.current /= <<>> THEN Append(end.parts, end.current) ELSE end.parts

\* a line-level ValueError: the message's format and its interpolated value
LineError(reason, arg) == [ok |-> FALSE, exc |-> "ValueError", reason |-> reason, arg |-> arg]
Parsed(rec) == [ok |-> TRUE, rec |-> rec]

\* variant: 'nowait' is matched as written
SimpleScriptParser_parse_load_case_sensitive(parts) ==
    IF Len(parts) < 2 THEN LineError("LOAD requires a URL", <<>>)
    ELSE LET url == parts[2]
             wait == ~\E k \in 3..Len(parts) : parts[k] = W_nowait
         IN Parsed([command |-> Name("load_url"), url |-> Str(url),
                    wait_for_load |-> Bool(wait)])

\* SimpleScriptParser._parse_load
SimpleScriptParser_parse_load(parts) ==
    IF Len(parts) < 2 THEN LineError("LOAD requires a URL", <<>>)
    ELSE LET url == parts[2]
             wait == ~\E k \in 3..Len(parts) : Lower(parts[k]) = W_nowait
         IN Parsed([command |-> Name("load_url"), url |-> Str(url),
                    wait_for_load |-> Bool(wait)])

\* SimpleScriptParser._parse_wait
SimpleScriptParser_parse_wait(parts) ==
    IF Len(parts) < 2 THEN LineError("WAIT requires seconds", <<>>)
    ELSE LET seconds == Float(Str(parts[2])) IN
         IF ~seconds.ok THEN LineError("WAIT seconds must be a number, got", parts[2])
         ELSE IF seconds.v < 0 THEN LineError("WAIT seconds must be positive", <<>>)
         ELSE Parsed([command |-> Name("pause"), seconds |-> Num(seconds.v)])

\* SimpleScriptParser._parse_save
SimpleScriptParser_parse_save(parts) ==
    IF Len(parts) < 2 THEN LineError("SAVE requires HTML or TEXT type", <<>>)
    ELSE LET save_type == Lower(parts[2]) IN
         IF save_type \notin {W_html, W_text}
         THEN LineError("SAVE type must be HTML or TEXT, got", save_type)
         ELSE LET joined == Join(SubSeq(parts, 3, Len(parts)), <<" ">>)
                  tag == IF Len(parts) > 2
                         THEN IF /\ joined /= <<>>
                                 /\ joined[1] = QUOTE /\ joined[Len(joined)] = QUOTE
                              THEN SubSeq(joined, 2, Len(joined) - 1)
                              ELSE joined
                         ELSE <<>>
                  command == IF save_type = W_html THEN "save_html" ELSE "save_text"
              IN IF tag /= <<>>
                 THEN Parsed([command |-> Name(command), tag |-> Str(tag)])
                 ELSE Parsed([command |-> Name(command)])

\* SimpleScriptParser._parse_line; Parsed(None) when the line has no token
SimpleScriptParser_parse_line(line) ==
    LET parts == SimpleScriptParser_split_command(line) IN
    IF parts = <<>> THEN Parsed(None)
    ELSE LET cmd == Lower(parts[1]) IN
         IF cmd = W_load THEN SimpleScriptParser_parse_load(parts)
         ELSE IF cmd = W_wait THEN SimpleScriptParser_parse_wait(parts)
         ELSE IF cmd = W_save THEN SimpleScriptParser_parse_save(parts)
         ELSE LineError("Unknown command", cmd)

\* variant: a '#' between double quotes does not start a comment
StripComment_outside_quotes(line) ==
    LET Quoted(k) == Len(SelectSeq(SubSeq(line, 1, k - 1), LAMBDA c : c = QUOTE)) % 2 = 1
        H == {k \in 1..Len(line) : line[k] = HASH /\ ~Quoted(k)}
    IN Strip(IF H /= {} THEN SubSeq(line, 1, (CHOOSE k \in H : \A m \in H : k <= m) - 1)
             ELSE line, Whitespace)

\* the body of the loop of parse for one line, up to the call of _parse_line
StripComment(line) ==
    Strip(IF IndexOf(line, HASH) > 0 THEN SubSeq(line, 1, IndexOf(line, HASH) - 1)
          ELSE line, Whitespace)

\* variant: the first bad line ends the scan
SimpleScriptParser_parse_first_error(text) ==
    LET lines == Split(Strip(text, Whitespace), NL)
        F[n \in 0..Len(lines)] ==
            IF n = 0 THEN [commands |-> <<>>, errors |-> <<>>]
            ELSE LET line == StripComment(lines[n]) IN
                 IF line = <<>> \/ F[n - 1].errors /= <<>> THEN F[n - 1]
                 ELSE LET r == SimpleScriptParser_parse_line(line) IN
                      IF ~r.ok
                      THEN [F[n - 1] EXCEPT !.errors =
                               Append(@, [line |-> n, reason |-> r.reason, arg |-> r.arg])]
                      ELSE IF r.rec /= None
                           THEN [F[n - 1] EXCEPT !.commands = Append(@, r.rec)]
                           ELSE F[n - 1]
        end == F[Len(lines)]
    IN IF end.errors /= <<>>
       THEN [ok |-> FALSE, exc |-> "ValueError", errors |-> end.errors]
       ELSE [ok |-> TRUE, value |-> [version |-> "1.0", commands |-> end.commands]]

\* SimpleScriptParser.parse: the dict returned, or the ValueError raised
\* with the "Line {n}: {e}" entries its message is joined from
SimpleScriptParser_parse(text) ==
    LET lines == Split(Strip(text, Whitespace), NL)
        F[n \in 0..Len(lines)] ==
            IF n = 0 THEN [commands |-> <<>>, errors |-> <<>>]
            ELSE LET line == StripComment(lines[n]) IN
                 IF line = <<>> THEN F[n - 1]
                 ELSE LET r == SimpleScriptParser_parse_line(line) IN
                      IF ~r.ok
                      THEN [F[n - 1] EXCEPT !.errors =
                               Append(@, [line |-> n, reason |-> r.reason, arg |-> r.arg])]
                      ELSE IF r.rec /= None
                           THEN [F[n - 1] EXCEPT !.commands = Append(@, r.rec)]
                           ELSE F[n - 1]
        end == F[Len(lines)]
    IN IF end.errors /= <<>>
       THEN [ok |-> FALSE, exc |-> "ValueError", errors |-> end.errors]
       ELSE [ok |-> TRUE, value |-> [version |-> "1.0", commands |-> end.commands]]

\* parse_simple_script(text): a parser of its own for every call, so one call
\* stands for all
parse_simple_script(text) ==
    /\ pc = "idle"
    /\ script_text = NoText
    /\ script_text' = text
    /\ parsed' = SimpleScriptParser_parse(text)
    /\ UNCHANGED <<split, effects, saved, load_wait, returned, script, registry, commands, current_index,
                   is_running, is_paused, errors, stop_on_error, browser_window, logs,
                   pc, i, success_count, error_count, result, raised, on_progress,
                   progress>>

(***************************************************************************)
(* The line parser alone, on texts of up to MaxLines lines.                *)
(***************************************************************************)
SP == <<" ">>
L_load == W_load \o SP \o <<"u">>                                \* load u
L_LOAD_NoWait == <<"L", "O", "A", "D">> \o SP \o <<"u">> \o SP
                    \o <<"N", "o", "W", "a", "i", "t">>           \* LOAD u NoWait
L_wait == W_wait \o SP \o <<"2">> \o SP \o <<HASH, "c">>          \* wait 2 #c
L_SAVE_HTML == <<"S", "A", "V", "E">> \o SP \o <<"H", "T", "M", "L">>
                    \o SP \o <<"a">>                              \* SAVE HTML a
L_save_text == W_save \o SP \o W_text \o SP
                    \o <<QUOTE, "a", " ", "b", QUOTE>>            \* save text "a b"
L_comment == <<HASH, " ", "c">>                                   \* # c
L_blank == <<>>
L_quotes == <<QUOTE, QUOTE>>                                      \* ""
L_click == <<"c", "l", "i", "c", "k">>                            \* click
L_load_bare == W_load                                             \* load
L_wait_x == W_wait \o SP \o <<"x">>                               \* wait x
L_save_xml == W_save \o SP \o <<"x", "m", "l">>                   \* save xml

SampleLines ==
    {L_load, L_LOAD_NoWait, L_wait, L_SAVE_HTML, L_save_text, L_comment, L_blank,
     L_quotes, L_click, L_load_bare, L_wait_x, L_save_xml}

Texts == {Join(q, <<NL>>) : q \in SeqsUpTo(SampleLines, MaxLines) \ {<<>>}}

NextParse ==
    \E text \in Texts : parse_simple_script(text)

SpecParse == Init /\ [][NextParse]_vars

(***************************************************************************)
(* ScriptExecutor.load_from_file.  A file is [suffix, format, data]:       *)
(* the suffix of its name, and its content, either the JSON text of a      *)
(* script_data ("json") or a text of script lines ("lines").               *)
(***************************************************************************)
\* the modules of package qwsengine.scripting
MODULES == {"command", "context", "executor", "registry", "simple_script_parser"}

DOT_JSON == <<".", "j", "s", "o", "n">>

load_from_file(file) ==
    /\ pc = "idle"
    /\ logs = <<>>
    /\ IF Lower(file.suffix) = DOT_JSON
       THEN IF file.format /= "json" \/ "commands" \notin DOMAIN file.data
            THEN \* json.JSONDecodeError, or load_from_json's ValueError
                 /\ raised' = "ValueError"
                 /\ IF file.format = "json"
                    THEN script' = file.data /\ commands' = <<>> /\ errors' = <<>>
                    ELSE UNCHANGED <<script, commands, errors>>
                 /\ UNCHANGED logs
            ELSE LET r == LoadLoop(registry, file.data["commands"], 1,
                              [commands |-> <<>>, errors |-> <<>>, logs |-> logs])
                 IN /\ script' = file.data
                    /\ commands' = r.commands
                    /\ errors' = r.errors
                    /\ logs' = Log(r.logs, "INFO", "Loaded script from", 0)
                    /\ raised' = "none"
       ELSE IF "simple_parser" \notin MODULES
            THEN /\ raised' = "ImportError"
                 /\ UNCHANGED <<script, commands, errors, logs>>
            ELSE LET p == SimpleScriptParser_parse(file.data) IN
                 IF ~p.ok
                 THEN /\ raised' = "ValueError"
                      /\ UNCHANGED <<script, commands, errors, logs>>
                 ELSE LET r == LoadLoop(registry, p.value["commands"], 1,
                                   [commands |-> <<>>, errors |-> <<>>, logs |-> logs])
                      IN /\ script' = p.value
                         /\ commands' = r.commands
                         /\ errors' = r.errors
                         /\ logs' = Log(r.logs, "INFO", "Loaded script from", 0)
                         /\ raised' = "none"
    /\ UNCHANGED <<effects, caller_vars, registry, current_index, is_running, is_paused,
                   stop_on_error, browser_window, pc, i, success_count, error_count,
                   result, on_progress, progress>>

\* the files tried
FileTexts == {Join(q, <<NL>>) : q \in SeqsUpTo({L_load, L_wait, L_click}, MaxLines) \ {<<>>}}

FileScripts == Scripts(LoadRecords, MaxRecords)

JsonSuffixes == {DOT_JSON, <<".", "J", "S", "O", "N">>}
LineSuffixes == {<<".", "t", "x", "t">>, <<".", "T", "X", "T">>, <<>>}

JsonFiles ==
    {[suffix |-> x, format |-> "json", data |-> d] : x \in JsonSuffixes, d \in FileScripts}

LineFiles ==
    {[suffix |-> x, format |-> "lines", data |-> d] :
        x \in JsonSuffixes \cup LineSuffixes, d \in FileTexts}

NextFile ==
    \/ \E n \in {"load_url", "pause"} : CommandRegistry_register(n, Registrations[n])
    \/ \E file \in JsonFiles : load_from_file(file)
    \/ \E file \in LineFiles : load_from_file(file)
    \/ clear_logs

SpecFile == Init /\ [][NextFile]_vars

(***************************************************************************)
(* Scripts of lines, parsed, loaded and run, with and without a browser.   *)
(***************************************************************************)
L_save_html_b == W_save \o SP \o W_html \o SP \o <<"b">>          \* save html b

ExecLines == {L_load, L_wait, L_SAVE_HTML, L_save_html_b, L_save_text}

LineTexts == {Join(q, <<NL>>) : q \in SeqsUpTo(ExecLines, MaxLines) \ {<<>>}}

\* executor.load_from_json(parse_simple_script(text))
load_parsed ==
    /\ parsed.ok
    /\ load_from_json(parsed.value)

NextLines ==
    \/ \E n \in {"load_url", "pause"} : CommandRegistry_register(n, Registrations[n])
    \/ \E text \in LineTexts : parse_simple_script(text)
    \/ load_parsed
    \/ \E b \in BOOLEAN : set_stop_on_error(b)
    \/ execute(FALSE)
    \/ execute_loop
    \/ execute_pause_wait
    \/ execute_stop_check
    \/ execute_try("ok")
    \/ execute_cmd
    \/ execute_return

SpecLines == Init /\ [][NextLines]_vars

(***************************************************************************)
(* LoadURLCommand._wait_for_load, one call, cut at each pass of its two    *)
(* loops.  load_wait holds the frame of the call:                          *)
(*   pc             "none" (not called), "poll" (at the test of the while  *)
(*                  loop), "settle" (at the head of the for loop),         *)
(*                  "returned"                                             *)
(*   elapsed_ms, load_finished, settle (passes of the for loop done)       *)
(*   load_success   the flag the last loadFinished(ok) delivered           *)
(*   connected      on_load_finished is connected to loadFinished          *)
(*   caught         the except clause was entered                          *)
(*   log            the entries the call logged                            *)
(* The page's loadFinished signal reaches on_load_finished only inside     *)
(* processEvents().                                                        *)
(***************************************************************************)
TIMEOUT_MS == 30000
POLL_INTERVAL_MS == 50
SETTLE_STEPS == 20

\* what get_current_tab() gives: no tab, a tab with a mock view, a Qt view
Views == {"none", "mock", "qt"}

WaitLog(w, level, msg) == [w EXCEPT !.log = Append(@, [level |-> level, msg |-> msg])]

WaitFrame ==
    [pc |-> "poll", elapsed_ms |-> 0, load_finished |-> FALSE,
     load_success |-> FALSE, settle |-> 0,
     connected |-> FALSE, caught |-> FALSE, log |-> <<>>]

\* the call, up to the first test of the while loop
wait_for_load(view) ==
    /\ load_wait = NoWait
    /\ load_wait' =
         CASE view = "none" ->
                WaitLog([WaitFrame EXCEPT !.pc = "returned"],
                        "WARNING", "No tab available for load wait")
           [] view = "mock" ->
                WaitLog([WaitFrame EXCEPT !.pc = "returned"],
                        "INFO", "Mock browser detected - skipping wait logic")
           [] view = "qt" ->
                WaitLog([WaitFrame EXCEPT !.connected = TRUE],
                        "INFO", "Waiting for page load")
    /\ UNCHANGED <<split, effects, saved, returned, script_text, parsed, script, registry,
                   commands, current_index, is_running, is_paused, errors,
                   stop_on_error, browser_window, logs, pc, i, success_count,
                   error_count, result, raised, on_progress, progress>>

\* what processEvents() delivers in one pass: nothing, or loadFinished(ok)
NoSignal == <<>>
Signals == {NoSignal, <<TRUE>>, <<FALSE>>}

\* variant: only loadFinished(True) ends the wait
wait_poll_needs_ok(signal) ==
    /\ load_wait.pc = "poll"
    /\ ~load_wait.load_finished /\ load_wait.elapsed_ms < TIMEOUT_MS
    /\ load_wait' =
         LET w == [load_wait EXCEPT !.elapsed_ms = @ + POLL_INTERVAL_MS]
         IN IF signal /= NoSignal
            THEN WaitLog([w EXCEPT !.load_finished = signal[1], !.load_success = signal[1]],
                         "INFO", "Page load finished")
            ELSE w
    /\ UNCHANGED <<split, effects, saved, returned, script_text, parsed, script, registry,
                   commands, current_index, is_running, is_paused, errors,
                   stop_on_error, browser_window, logs, pc, i, success_count,
                   error_count, result, raised, on_progress, progress>>

\* variant: the pass of the while loop does not advance elapsed_ms
wait_poll_no_clock(signal) ==
    /\ load_wait.pc = "poll"
    /\ ~load_wait.load_finished /\ load_wait.elapsed_ms < TIMEOUT_MS
    /\ load_wait' =
         LET w == [load_wait EXCEPT !.elapsed_ms = @]
         IN IF signal /= NoSignal
            THEN WaitLog([w EXCEPT !.load_finished = TRUE, !.load_success = signal[1]],
                         "INFO", "Page load finished")
            ELSE w
    /\ UNCHANGED <<split, effects, saved, returned, script_text, parsed, script, registry,
                   commands, current_index, is_running, is_paused, errors,
                   stop_on_error, browser_window, logs, pc, i, success_count,
                   error_count, result, raised, on_progress, progress>>

\* one pass of the while loop; signal: what this pass's processEvents()
\* delivers to on_load_finished
wait_poll(signal) ==
    /\ load_wait.pc = "poll"
    /\ ~load_wait.load_finished /\ load_wait.elapsed_ms < TIMEOUT_MS
    /\ load_wait' =
         LET w == [load_wait EXCEPT !.elapsed_ms = @ + POLL_INTERVAL_MS]
         IN IF signal /= NoSignal
            THEN WaitLog([w EXCEPT !.load_finished = TRUE, !.load_success = signal[1]],
                         "INFO", "Page load finished")
            ELSE w
    /\ UNCHANGED <<split, effects, saved, returned, script_text, parsed, script, registry,
                   commands, current_index, is_running, is_paused, errors,
                   stop_on_error, browser_window, logs, pc, i, success_count,
                   error_count, result, raised, on_progress, progress>>

\* the while loop ends: disconnect, the timeout warning, "Allowing render..."
wait_exit ==
    /\ load_wait.pc = "poll"
    /\ load_wait.load_finished \/ load_wait.elapsed_ms >= TIMEOUT_MS
    /\ load_wait' =
         LET w == [load_wait EXCEPT !.connected = FALSE, !.pc = "settle"]
             v == IF ~load_wait.load_finished
                  THEN WaitLog(w, "WARNING", "Page load timeout - continuing anyway")
                  ELSE w
         IN WaitLog(v, "INFO", "Allowing render process to complete painting")
    /\ UNCHANGED <<split, effects, saved, returned, script_text, parsed, script, registry,
                   commands, current_index, is_running, is_paused, errors,
                   stop_on_error, browser_window, logs, pc, i, success_count,
                   error_count, result, raised, on_progress, progress>>

\* one pass of `for i in range(20)`
wait_settle ==
    /\ load_wait.pc = "settle"
    /\ load_wait.settle < SETTLE_STEPS
    /\ load_wait' = [load_wait EXCEPT !.settle = @ + 1]
    /\ UNCHANGED <<split, effects, saved, returned, script_text, parsed, script, registry,
                   commands, current_index, is_running, is_paused, errors,
                   stop_on_error, browser_window, logs, pc, i, success_count,
                   error_count, result, raised, on_progress, progress>>

\* the range is exhausted: the method returns
wait_return ==
    /\ load_wait.pc = "settle"
    /\ load_wait.settle = SETTLE_STEPS
    /\ load_wait' = [load_wait EXCEPT !.pc = "returned"]
    /\ UNCHANGED <<split, effects, saved, returned, script_text, parsed, script, registry,
                   commands, current_index, is_running, is_paused, errors,
                   stop_on_error, browser_window, logs, pc, i, success_count,
                   error_count, result, raised, on_progress, progress>>

\* a Qt call inside the try block raises: the except clause logs and the
\* method returns
wait_except ==
    /\ load_wait.pc \in {"poll", "settle"}
    /\ load_wait' = WaitLog([load_wait EXCEPT !.caught = TRUE, !.pc = "returned"],
                            "WARNING", "Error during page load wait")
    /\ UNCHANGED <<split, effects, saved, returned, script_text, parsed, script, registry,
                   commands, current_index, is_running, is_paused, errors,
                   stop_on_error, browser_window, logs, pc, i, success_count,
                   error_count, result, raised, on_progress, progress>>

\* LoadURLCommand.execute behind a _wait_for_load that returned with frame
\* w: nothing of w is read, "URL loaded successfully" is logged and the
\* command returns
LoadURLCommand_after_wait(w) == [outcome |-> "ok", msg |-> "URL loaded successfully"]

\* the steps the thread inside _wait_for_load takes when nothing raises
WaitStep ==
    \/ \E signal \in Signals : wait_poll(signal)
    \/ wait_exit
    \/ wait_settle
    \/ wait_return

NextWait ==
    \/ \E view \in Views : wait_for_load(view)
    \/ WaitStep
    \/ wait_except

\* time.sleep returns and the thread goes on
SpecWait == Init /\ [][NextWait]_vars /\ WF_vars(WaitStep)

(***************************************************************************)
(* The tokenizer and the comment rule, on every line of up to MaxChars     *)
(* characters over a letter, the blank, the double quote and '#', alone    *)
(* and behind `save text `.                                                *)
(***************************************************************************)
MaxChars == 4

\* a call of parser._split_command(line)
split_command(line) ==
    /\ pc = "idle"
    /\ split = NoSplit
    /\ split' = [line |-> line, parts |-> SimpleScriptParser_split_command(line)]
    /\ UNCHANGED <<effects, saved, load_wait, returned, script_text, parsed, script,
                   registry, commands, current_index, is_running, is_paused, errors,
                   stop_on_error, browser_window, logs, pc, i, success_count,
                   error_count, result, raised, on_progress, progress>>

TokenLines == SeqsUpTo({"a", " ", QUOTE, HASH}, MaxChars)

SaveTextPrefix == W_save \o SP \o W_text \o SP

L_save_text_hash == SaveTextPrefix \o <<QUOTE, "a", HASH, "b", QUOTE>>   \* save text "a#b"
L_load_hash == W_load \o SP \o <<"u", HASH>> \o W_nowait                 \* load u#nowait

CommentTexts ==
    TokenLines \cup {SaveTextPrefix \o l : l \in TokenLines}
        \cup {L_save_text_hash, L_load_hash, L_wait, L_comment}

\* one call in a behaviour: the calls share nothing
NextTokens ==
    \/ \E line \in TokenLines : script_text = NoText /\ split_command(line)
    \/ \E text \in CommentTexts : split = NoSplit /\ parse_simple_script(text)

SpecTokens == Init /\ [][NextTokens]_vars

(***************************************************************************)
(* save_text records with every tag of up to MaxTagLen characters over a   *)
(* letter, the blank, the underscore and the hyphen, loaded and run.       *)
(***************************************************************************)
MaxTagLen == 3

Tags == SeqsUpTo({"a", " ", "_", "-"}, MaxTagLen)

TagScripts ==
    {[version |-> "1.0",
      commands |-> <<[command |-> Name("save_text"), tag |-> Str(t)]>>] : t \in Tags}
      \cup {[version |-> "1.0", commands |-> <<[command |-> Name("save_text")]>>]}

NextTag ==
    \/ \E json_data \in TagScripts : load_from_json(json_data)
    \/ execute(FALSE)
    \/ execute_loop
    \/ execute_pause_wait
    \/ execute_stop_check
    \/ execute_try("ok")
    \/ execute_cmd
    \/ execute_return

SpecTag == Init /\ [][NextTag]_vars

(***************************************************************************)
(* Validation: pause and load_url records through the loader, and `wait`   *)
(* lines through the line parser.                                          *)
(***************************************************************************)
ValidationRecords ==
    { [command |-> Name("pause")],
      [command |-> Name("pause"), seconds |-> None],
      [command |-> Name("pause"), seconds |-> Str(<<"x">>)],
      [command |-> Name("pause"), seconds |-> Str(<<"-", "1">>)],
      [command |-> Name("pause"), seconds |-> Str(<<"2">>)],
      [command |-> Name("pause"), seconds |-> Num(0 - 1)],
      [command |-> Name("pause"), seconds |-> Num(0)],
      [command |-> Name("load_url")],
      [command |-> Name("load_url"), url |-> Str(<<>>)],
      [command |-> Name("load_url"), url |-> Str(<<"u">>)] }

ValidationScripts == Scripts(ValidationRecords, MaxRecords)

\* the argument tokens tried after `wait`
WaitArgs == {<<"0">>, <<"2">>, <<"-", "1">>, <<"x">>, <<"-", "x">>}
WaitText(tok) == W_wait \o SP \o tok
WaitTexts == {WaitText(tok) : tok \in WaitArgs}

NextValidate ==
    \/ \E n \in {"load_url", "pause"} : CommandRegistry_register(n, Registrations[n])
    \/ \E json_data \in ValidationScripts : load_from_json(json_data)
    \/ \E text \in WaitTexts : parse_simple_script(text)

SpecValidate == Init /\ [][NextValidate]_vars

(***************************************************************************)
(* Round trips: a script is loaded, saved, and the saved script_data is    *)
(* loaded again.                                                           *)
(***************************************************************************)
RoundTripRecords ==
    { [command |-> Name("load_url"), url |-> Str(<<"u">>)],
      [command |-> Name("load_url"), url |-> Str(<<"u">>), wait_for_load |-> Bool(FALSE)],
      [command |-> Name("load_url"), url |-> Str(<<"x">>), wait_for_load |-> Bool(TRUE)],
      [command |-> Name("pause"), seconds |-> Num(2)],
      [command |-> Name("pause"), seconds |-> Str(<<"2">>)],
      [command |-> Name("save_html")],
      [command |-> Name("save_html"), filename |-> Str(<<"a">>), path |-> Str(<<"b">>)],
      [command |-> Name("save_text"), tag |-> Str(<<"a", " ", "b">>)],
      [command |-> Name("save_text"), tag |-> Str(<<"a">>), folder |-> Str(<<"b">>)] }

RoundTripScripts == Scripts(RoundTripRecords, MaxRecords)

\* executor.load_from_json(script_data) with the script_data last saved
load_saved ==
    /\ saved /= NoSaved
    /\ load_from_json(saved)

NextRoundTrip ==
    \/ \E n \in {"load_url", "pause"} : CommandRegistry_register(n, Registrations[n])
    \/ \E json_data \in RoundTripScripts : script = NoScript /\ load_from_json(json_data)
    \/ save_to_file
    \/ clear_logs
    \/ load_saved

SpecRoundTrip == Init /\ [][NextRoundTrip]_vars


(***************************************************************************)
(* What a log tells about the run it holds.                                *)
(***************************************************************************)
CompletionMsgs ==
    {"URL loaded successfully", "Pause complete", "Pause duration is 0 seconds",
     "HTML saved successfully", "Saved TEXT to"}

IsExecuting(e) == e.msg = "Executing"

\* position of the run's first entry, 0 when the log holds no run
StartPos(l) ==
    IF \E p \in 1..Len(l) : l[p].msg = "Starting script execution"
    THEN CHOOSE p \in 1..Len(l) : l[p].msg = "Starting script execution"
    ELSE 0

\* indices of the commands whose execute() was entered, in order
Executed(l) == LET e == SelectSeq(l, IsExecuting) IN [k \in 1..Len(e) |-> e[k].arg]

\* index k has a "finished" entry: the command's own last entry, or the
\* executor's "Command failed"
Succeeded(l, k) == \E p \in 1..Len(l) : l[p].msg \in CompletionMsgs /\ l[p].arg = k
FailedAt(l, k) == \E p \in 1..Len(l) : l[p].msg = "Command failed" /\ l[p].arg = k

\* executed indices whose command did not succeed, in order
Failing(l) ==
    LET ex == Executed(l)
        F[n \in 0..Len(ex)] ==
            IF n = 0 THEN <<>>
            ELSE IF Succeeded(l, ex[n]) THEN F[n - 1] ELSE Append(F[n - 1], ex[n])
    IN F[Len(ex)]

\* stop() was called after the run began
StopIssued(l) ==
    StartPos(l) > 0 /\ \E p \in (StartPos(l) + 1)..Len(l) : l[p].msg = "Script stopped"

Prefix(n) == [k \in 1..n |-> k - 1]
Indices(errs) == [k \in 1..Len(errs) |-> errs[k].index]

\* the step in which execute() returns
Returning == pc = "after" /\ pc' = "idle"

\* execute() waits in the pause checkpoint
Blocked == pc = "pause_wait" /\ PauseBlocks(is_paused, is_running)

\* a run is in progress and stop() has been called in it
StopPending == pc /= "idle" /\ ~is_running

BehindCheckpoint == {"loop", "pause_wait", "stop_check", "after"}

\* every command entered has finished
AllFinished(l) ==
    \A p \in 1..Len(l) :
        IsExecuting(l[p]) =>
            \E q \in (p + 1)..Len(l) :
                /\ l[q].msg \in CompletionMsgs \cup {"Command failed"}
                /\ l[q].arg = l[p].arg

C2_StopOnError ==
    [][ (Returning /\ stop_on_error /\ Failing(logs') /= <<>>) =>
          LET k == Failing(logs')[1] IN
          /\ Executed(logs') = Prefix(k + 1)
          /\ result' = "False"
          /\ Indices(errors') = <<k>> ]_vars

C2_Witness ==
    /\ pc = "idle" /\ result = "False" /\ stop_on_error
    /\ Len(commands) = 2
    /\ Executed(logs) = <<0>>
    /\ Indices(errors) = <<0>>

C4_StopAtCheckpoint ==
    /\ [][ StopPending =>
             /\ (pc = "cmd" /\ pc' /= "cmd" =>
                   /\ pc' \in {"loop", "after"}
                   /\ Succeeded(logs', i) \/ FailedAt(logs', i))
             /\ (pc \in BehindCheckpoint =>
                   /\ pc' \in BehindCheckpoint \cup {"idle"}
                   /\ Executed(logs') = Executed(logs))
             /\ (pc' /= "idle" => ~is_running') ]_vars
    /\ [](StopPending => ~Blocked)
    /\ [](StopPending /\ pc = "pause_wait" => ENABLED execute_pause_wait)
    /\ [](StopPending /\ pc = "stop_check" => ENABLED execute_stop_check)

\* stop() came while command 0 of two was in progress: command 0 finished,
\* command 1 never ran, execute() returned
C4_Witness ==
    /\ pc = "idle" /\ result /= "none"
    /\ Len(commands) = 2
    /\ Executed(logs) = <<0>>
    /\ \E p, q, r \in 1..Len(logs) :
         /\ p < q /\ q < r
         /\ IsExecuting(logs[p]) /\ logs[p].arg = 0
         /\ logs[q].msg = "Script stopped"
         /\ logs[r].msg \in CompletionMsgs /\ logs[r].arg = 0

(***************************************************************************)
(* C5.  A stop() that finds execute() waiting at the pause checkpoint      *)
(* (is_paused still set) ends the wait without resume(): the wait's exit   *)
(* is enabled, leads to the stop test, which logs "Script execution        *)
(* stopped by user" and leaves the loop; the command pending at that index *)
(* is not executed.                                                        *)
(***************************************************************************)
StoppedByUser(l, k) ==
    \E p \in 1..Len(l) : l[p].msg = "Script execution stopped by user" /\ l[p].arg = k

C5_StopWhilePaused ==
    /\ [](pc = "pause_wait" /\ is_paused /\ ~is_running => ENABLED execute_pause_wait)
    /\ [][ (pc = "pause_wait" /\ is_paused /\ ~is_running /\ pc' /= pc) =>
             pc' = "stop_check" /\ logs' = logs ]_vars
    /\ [][ (pc = "stop_check" /\ ~is_running /\ pc' /= pc) =>
             /\ pc' = "after"
             /\ StoppedByUser(logs', current_index)
             /\ Executed(logs') = Executed(logs) ]_vars
    /\ [](\A k \in 0..Len(commands) :
            StoppedByUser(logs, k) =>
              /\ pc \in {"after", "idle"}
              /\ \A n \in 1..Len(Executed(logs)) : Executed(logs)[n] < k)

\* paused before command 1, then stopped and never resumed: the run ended
\* with command 1 not executed
C5_Witness ==
    /\ pc = "idle" /\ result /= "none" /\ is_paused
    /\ Len(commands) >= 2
    /\ Executed(logs) = <<0>>
    /\ StoppedByUser(logs, 1)
    /\ Count(logs, {"Script resumed"}) = 0
    /\ \E p, q, r \in 1..Len(logs) :
         /\ p < q /\ q < r
         /\ logs[p].msg = "Script paused"
         /\ logs[q].msg = "Script stopped"
         /\ logs[r].msg = "Script execution stopped by user"

(***************************************************************************)
(* C6.  On every return of execute(), the value returned is true exactly   *)
(* when the error list is empty.                                           *)
(***************************************************************************)
C6_ResultIffNoErrors ==
    [][ Returning => (result' = "True" <=> errors' = <<>>) ]_vars

\* a run that was stopped after a failure returned false
C6_Witness ==
    /\ pc = "idle" /\ result = "False" /\ errors /= <<>>
    /\ \E k \in 0..Len(commands) : StoppedByUser(logs, k)

(***************************************************************************)
(* C7.  A failing command never makes execute() raise: the step in which   *)
(* a command fails appends (i, command, message) to the error list, logs   *)
(* "Command failed" at ERROR, and either leaves the loop (stop_on_error)   *)
(* or goes on with the next index.                                         *)
(***************************************************************************)
CommandFails == pc = "cmd" /\ pc' /= "cmd" /\ success_count' = success_count

C7_FailuresCaught ==
    /\ [][ pc /= "idle" => raised' = "none" ]_vars
    /\ [][ CommandFails =>
             /\ raised' = "none"
             /\ Len(errors') = Len(errors) + 1
             /\ LET e == errors'[Len(errors')] IN
                  /\ e.type = "tuple" /\ e.index = i /\ e.command = commands[i + 1]
             /\ \E p \in (Len(logs) + 1)..Len(logs') :
                  /\ logs'[p].level = "ERROR"
                  /\ logs'[p].msg = "Command failed" /\ logs'[p].arg = i
             /\ IF stop_on_error THEN pc' = "after"
                ELSE pc' = "loop" /\ i' = i + 1 ]_vars

\* both commands failed, the run went on after the first and returned
C7_Witness ==
    /\ pc = "idle" /\ result = "False" /\ raised = "none"
    /\ Indices(errors) = <<0, 1>>
    /\ Executed(logs) = <<0, 1>>

C9_PausedOnlyWhileRunning == is_paused => pc /= "idle"


(***************************************************************************)
(* C10.  After load_from_json(data) with a 'commands' list, the command    *)
(* list is exactly what the factories build from the valid records, in     *)
(* their order; every other record (no 'command', unregistered kind,       *)
(* rejected by its factory) left one load error carrying its position;     *)
(* commands + load errors = records.                                       *)
(***************************************************************************)
RecordValid(r) ==
    /\ "command" \in DOMAIN r
    /\ r["command"].t = "name"
    /\ r["command"].v \in DOMAIN registry
    /\ from_dict(registry[r["command"].v], r).ok

RecordInvalid(r) == ~RecordValid(r)

\* positions (0-based) of the records of recs that satisfy Bad, in order
Positions(recs, Bad(_)) ==
    LET P[n \in 0..Len(recs)] ==
            IF n = 0 THEN <<>>
            ELSE IF Bad(recs[n]) THEN Append(P[n - 1], n - 1) ELSE P[n - 1]
    IN P[Len(recs)]

C10_BestEffortLoad ==
    (script /= NoScript /\ "commands" \in DOMAIN script) =>
        LET recs == script["commands"]
            good == SelectSeq(recs, RecordValid)
        IN /\ commands = [k \in 1..Len(good) |->
                            from_dict(registry[good[k]["command"].v], good[k]).cmd]
           /\ Indices(errors) = Positions(recs, RecordInvalid)
           /\ \A k \in 1..Len(errors) : errors[k].type = "str"
           /\ Len(commands) + Len(errors) = Len(recs)
           /\ raised = "none"

\* a rejected record between two valid ones of different kinds
C10_Witness ==
    /\ script /= NoScript /\ "commands" \in DOMAIN script
    /\ Len(script["commands"]) = 3
    /\ Len(commands) = 2 /\ commands[1].kind = "pause" /\ commands[2].kind = "save_text"
    /\ Indices(errors) = <<1>>
    /\ errors[1].message = "Seconds must be non-negative"

(***************************************************************************)
(* C11.  As claimed: a load resets the run state.  After any               *)
(* load_from_json the error list holds no entry of an earlier run or load  *)
(* (only the load errors of this load), current_index is 0 and             *)
(* get_progress() reports index 0.                                         *)
(***************************************************************************)
Loading == \E json_data \in RunScripts : load_from_json(json_data)

C11_LoadResetsRunState ==
    [][ (Loading /\ raised' = "none") =>
          /\ \A k \in 1..Len(errors') : errors'[k].type = "str"
          /\ Len(errors') <= Len(Get(script', "commands", <<>>))
          /\ current_index' = 0
          /\ get_progress(current_index', commands', is_running')[1] = 0 ]_vars

(***************************************************************************)
(* C12.  As claimed: in every reachable state every element of             *)
(* get_errors() is an (index, command, message) tuple whose index is a     *)
(* position of the loaded command list.                                    *)
(***************************************************************************)
C12_ErrorsAreTuples ==
    LET errs == get_errors(errors).items IN
    \A k \in 1..Len(errs) :
        /\ errs[k].type = "tuple"
        /\ errs[k].index \in 0..(Len(commands) - 1)

(***************************************************************************)
(* C13.  get_errors() hands out a list of its own: whatever the caller     *)
(* does to the list it was given (append, pop, clear), the executor's      *)
(* error list and what a later get_errors() returns stay as they were.     *)
(***************************************************************************)
MutatesReturned == returned_append \/ returned_pop \/ returned_clear

C13_ErrorsCopied ==
    /\ [](returned.list /= "self.errors")
    /\ [][ MutatesReturned =>
             /\ errors' = errors
             /\ get_errors(errors').items = get_errors(errors).items ]_vars

\* after a failing run the caller emptied the list it got and put an entry
\* of its own into it; the executor still holds the failure
C13_Witness ==
    /\ pc = "idle" /\ result = "False"
    /\ returned.items = <<FOREIGN>>
    /\ Len(errors) >= 1 /\ errors[1].type = "tuple"

(***************************************************************************)
(* C14.  execute() empties the error list when it starts, so at its return *)
(* the list holds the failures of this run and nothing else: no load       *)
(* error, no failure of an earlier run.  A run in which no command fails   *)
(* returns true with an empty list.                                        *)
(***************************************************************************)
Starting == pc = "idle" /\ pc' = "loop"

C14_ErrorsOfThisRun ==
    /\ [][ Starting => errors' = <<>> ]_vars
    /\ [][ Returning =>
             /\ \A k \in 1..Len(errors') : errors'[k].type = "tuple"
             /\ Indices(errors') = Failing(logs')
             /\ (Failing(logs') = <<>> => result' = "True" /\ errors' = <<>>) ]_vars

\* the caller still holds the failure of an earlier run of the loaded
\* script; the run that has just returned succeeded, with no error left
C14_Witness ==
    /\ pc = "idle" /\ result = "True" /\ errors = <<>>
    /\ Len(commands) >= 1
    /\ Executed(logs) = Prefix(Len(commands))
    /\ \E k \in 1..Len(returned.items) :
         /\ returned.items[k].type = "tuple"
         /\ returned.items[k].index < Len(commands)
         /\ returned.items[k].command = commands[returned.items[k].index + 1]

(***************************************************************************)
(* C15.  A kind name is registered at most once: register() on a name the  *)
(* registry holds raises ValueError and leaves the registry as it was, and *)
(* no step ever gives a registered name another class.                     *)
(***************************************************************************)
RegistersPresentName ==
    \E c \in RegisterCalls : c[1] \in DOMAIN registry /\ CommandRegistry_register(c[1], c[2])

C15_RegisterOnce ==
    /\ [][ RegistersPresentName => raised' = "ValueError" /\ registry' = registry ]_vars
    /\ [][ \A n \in DOMAIN registry \cap DOMAIN registry' :
               registry'[n] = registry[n] ]_vars

\* 'pause' is registered, and a register call made before any load failed
C15_Witness ==
    /\ script = NoScript /\ raised = "ValueError"
    /\ "pause" \in DOMAIN registry /\ registry["pause"] = "PauseCommand"

(***************************************************************************)
(* C16.  In every state of the registry, create_command(name, record):     *)
(* for a name that is not registered raises ValueError, builds nothing,    *)
(* and the error carries the requested name and all registered names in    *)
(* ascending order; for a registered name it is exactly the outcome of     *)
(* that class's from_dict(record), command or error.                       *)
(***************************************************************************)
KindNames == {Name(KindOrder[k]) : k \in 1..Len(KindOrder)}

\* q lists the names of S once each, in ascending order
SortedListing(q, S) ==
    /\ Len(q) = Cardinality(S)
    /\ {q[k] : k \in 1..Len(q)} = S
    /\ \A j, k \in 1..Len(q) : j < k => Rank(q[j]) < Rank(q[k])

C16_CreateCommand ==
    \A name \in KindNames, data \in LoadRecords :
        LET r == CommandRegistry_create_command(registry, name, data) IN
        IF name.v \notin DOMAIN registry
        THEN /\ ~r.ok /\ r.exc = "ValueError" /\ "cmd" \notin DOMAIN r
             /\ r.name = name
             /\ SortedListing(r.available, DOMAIN registry)
        ELSE /\ r = from_dict(registry[name.v], data)
             /\ r.ok => r.cmd.kind \in {"load_url", "pause", "save_html", "save_text"}

\* a load met a record of a kind that is not registered while three kinds
\* were
C16_Witness ==
    /\ Cardinality(DOMAIN registry) = 3
    /\ \E k \in 1..Len(errors) : errors[k].message = "Unknown command"
    /\ Len(commands) >= 1

(***************************************************************************)
(* C17.  As claimed: once the scripting package is imported and before any *)
(* script is loaded, each of the four kinds is registered with its class   *)
(* and create_command succeeds on a valid record of it.                    *)
(***************************************************************************)
ValidRecord(n) ==
    CASE n = "load_url"  -> [command |-> Name(n), url |-> Str(<<"u">>)]
      [] n = "pause"     -> [command |-> Name(n), seconds |-> Num(1)]
      [] n = "save_html" -> [command |-> Name(n)]
      [] n = "save_text" -> [command |-> Name(n)]

C17_StartupRegistersAll ==
    script = NoScript =>
        \A n \in DOMAIN Registrations :
            /\ n \in DOMAIN registry
            /\ registry[n] = Registrations[n]
            /\ CommandRegistry_create_command(registry, Name(n), ValidRecord(n)).ok

(***************************************************************************)
(* What the line grammar says of the sample lines.                         *)
(***************************************************************************)
\* the lines of the text as the parser numbers them
LinesOf(text) == Split(Strip(text, Whitespace), NL)

\* the reason a line is bad, "none" for every other line
Reason(line) ==
    CASE line = L_click     -> "Unknown command"
      [] line = L_load_bare -> "LOAD requires a URL"
      [] line = L_wait_x    -> "WAIT seconds must be a number, got"
      [] line = L_save_xml  -> "SAVE type must be HTML or TEXT, got"
      [] OTHER              -> "none"

BadLine(line) == Reason(line) /= "none"
NoBadLine(text) == \A n \in 1..Len(LinesOf(text)) : ~BadLine(LinesOf(text)[n])

\* the canonical record of a good line
Canonical(line) ==
    CASE line = L_load ->
            [command |-> Name("load_url"), url |-> Str(<<"u">>),
             wait_for_load |-> Bool(TRUE)]
      [] line = L_LOAD_NoWait ->
            [command |-> Name("load_url"), url |-> Str(<<"u">>),
             wait_for_load |-> Bool(FALSE)]
      [] line = L_wait ->
            [command |-> Name("pause"), seconds |-> Num(2)]
      [] line = L_SAVE_HTML ->
            [command |-> Name("save_html"), tag |-> Str(<<"a">>)]
      [] line = L_save_text ->
            [command |-> Name("save_text"), tag |-> Str(<<"a", " ", "b">>)]

\* neither blank nor a comment
HasContent(line) == StripComment(line) /= <<>>
\* holds a token once its comment is removed
HasToken(line) == SimpleScriptParser_split_command(StripComment(line)) /= <<>>

(***************************************************************************)
(* C18.  As claimed: on a text with no bad line the parser returns exactly *)
(* one canonical record per non-blank, non-comment line, in line order.    *)
(***************************************************************************)
C18_AsClaimed ==
    (script_text /= NoText /\ NoBadLine(script_text)) =>
        LET content == SelectSeq(LinesOf(script_text), HasContent) IN
        /\ parsed.ok
        /\ Len(parsed.value.commands) = Len(content)
        /\ \A k \in 1..Len(content) :
             content[k] /= L_quotes => parsed.value.commands[k] = Canonical(content[k])

(***************************************************************************)
(* C18, amended.  On a text with no bad line the parser returns exactly    *)
(* one canonical record per line that holds a token once its comment is    *)
(* removed, in line order: load -> load_url{url, wait_for_load true unless *)
(* a later token is 'nowait' in any case}, wait -> pause{seconds}, save    *)
(* html -> save_html, save text -> save_text, the tokens after the save    *)
(* type joined with single spaces as the tag.                              *)
(***************************************************************************)
C18_OneRecordPerTokenLine ==
    (script_text /= NoText /\ NoBadLine(script_text)) =>
        LET content == SelectSeq(LinesOf(script_text), HasToken) IN
        /\ parsed.ok
        /\ parsed.value.version = "1.0"
        /\ parsed.value.commands = [k \in 1..Len(content) |-> Canonical(content[k])]

\* three lines, the middle one a comment: LOAD u NoWait and save text "a b"
C18_Witness ==
    /\ script_text /= NoText /\ parsed.ok
    /\ Len(LinesOf(script_text)) = 3
    /\ LinesOf(script_text)[2] = L_comment
    /\ parsed.value.commands = <<Canonical(L_LOAD_NoWait), Canonical(L_save_text)>>

(***************************************************************************)
(* C19.  A text with a bad line is scanned to its end and fails as a       *)
(* whole: the parse raises ValueError with one "Line n: reason" entry per  *)
(* bad line, in line order, n being the line's number in the text the      *)
(* parser scans (the text stripped of surrounding whitespace), and no      *)
(* record list is returned.                                                *)
(***************************************************************************)
BadEntries(text) ==
    LET lines == LinesOf(text)
        E[n \in 0..Len(lines)] ==
            IF n = 0 THEN <<>>
            ELSE IF BadLine(lines[n]) THEN Append(E[n - 1], <<n, Reason(lines[n])>>)
            ELSE E[n - 1]
    IN E[Len(lines)]

C19_AtomicFailure ==
    (script_text /= NoText /\ ~NoBadLine(script_text)) =>
        /\ ~parsed.ok
        /\ parsed.exc = "ValueError"
        /\ "value" \notin DOMAIN parsed
        /\ [k \in 1..Len(parsed.errors) |->
               <<parsed.errors[k].line, parsed.errors[k].reason>>]
             = BadEntries(script_text)

\* a valid line between two bad ones: two entries, no record
C19_Witness ==
    /\ script_text /= NoText /\ ~parsed.ok
    /\ LinesOf(script_text) = <<L_wait_x, L_load, L_click>>
    /\ Len(parsed.errors) = 2
    /\ parsed.errors[1].line = 1 /\ parsed.errors[2].line = 3

(***************************************************************************)
(* C20.  Validation at construction.  Of the records loaded while their    *)
(* kind is registered, a pause record is rejected exactly when its seconds *)
(* is missing, not a number or negative (0 is accepted), a load_url record *)
(* exactly when its url is missing or empty; and `wait X` is a line error  *)
(* exactly when the pause factory rejects seconds = X, the record of an    *)
(* accepted line being one the factory accepts with the same seconds.      *)
(***************************************************************************)
\* which of the sample values are numbers, and their values
IsNumber(x) ==
    \/ x.t = "num"
    \/ x.t = "str" /\ x.v \in {<<"0">>, <<"2">>, <<"-", "1">>}
NumberOf(x) ==
    IF x.t = "num" THEN x.v
    ELSE CASE x.v = <<"0">> -> 0 [] x.v = <<"2">> -> 2 [] x.v = <<"-", "1">> -> 0 - 1

SecondsRejected(r) ==
    \/ "seconds" \notin DOMAIN r
    \/ ~IsNumber(r["seconds"])
    \/ NumberOf(r["seconds"]) < 0

UrlRejected(r) ==
    \/ "url" \notin DOMAIN r
    \/ r["url"] = None
    \/ r["url"] = Str(<<>>)

Rejected(r) ==
    \/ r["command"].v \notin DOMAIN registry
    \/ r["command"].v = "pause" /\ SecondsRejected(r)
    \/ r["command"].v = "load_url" /\ UrlRejected(r)

Accepted(r) == ~Rejected(r)

SavedNow == logs /= <<>> /\ logs[Len(logs)].msg = "Saved script to"

AllAccepted == "commands" \in DOMAIN script /\ Len(commands) = Len(script["commands"])

C21_NavigateRoundTrip ==
    (SavedNow /\ AllAccepted) =>
        \A k \in 1..Len(commands) :
            LET r == script["commands"][k]
                w == saved["commands"][k]
            IN r["command"] = Name("load_url") =>
                 /\ w["command"] = Name("load_url")
                 /\ w["url"] = r["url"]
                 /\ w["wait_for_load"] = Get(r, "wait_for_load", Bool(TRUE))
                 /\ DOMAIN r = {"command", "url", "wait_for_load"} => w = r

\* a record without wait_for_load was loaded and saved
C21_Witness ==
    /\ SavedNow /\ AllAccepted
    /\ Len(commands) = 2
    /\ script["commands"][1] = [command |-> Name("load_url"), url |-> Str(<<"u">>)]
    /\ saved["commands"][1]["wait_for_load"] = Bool(TRUE)
    /\ script["commands"][2]["command"] = Name("load_url")
    /\ saved["commands"][2]["wait_for_load"] = Bool(FALSE)

(***************************************************************************)
(* C22.  As claimed: loading what save_to_file wrote rebuilds the commands *)
(* it was written from, every parameter equal.                             *)
(***************************************************************************)
C22_CommandRoundTrip ==
    [][ (saved /= NoSaved /\ load_from_json(saved)) => commands' = commands ]_vars

(***************************************************************************)
(* C23.  As claimed: load_from_file hands a file whose suffix is '.json'   *)
(* in any case to load_from_json, and parses any other file with the line  *)
(* parser and loads the script_data parsed from it.                        *)
(***************************************************************************)
LoadedFrom(json_data) ==
    /\ script' = json_data
    /\ raised' = "none"
    /\ commands' = LoadLoop(registry, json_data["commands"], 1,
                       [commands |-> <<>>, errors |-> <<>>, logs |-> <<>>]).commands

C23_FileDispatch ==
    [][ /\ \A file \in JsonFiles : load_from_file(file) =>
             ("commands" \in DOMAIN file.data => LoadedFrom(file.data))
        /\ \A file \in LineFiles : load_from_file(file) =>
             LET p == SimpleScriptParser_parse(file.data)
             IN (Lower(file.suffix) /= DOT_JSON /\ p.ok) => LoadedFrom(p.value) ]_vars

(***************************************************************************)
(* C24.  The on_progress callback is called once for each command whose    *)
(* execution is entered, in the step that leaves the checkpoints and       *)
(* enters the command, with the command's index, the number of loaded      *)
(* commands and str(cmd); never without a callback, and never for a        *)
(* command the run does not enter.                                         *)
(***************************************************************************)
ProgressOf(l) ==
    LET ex == Executed(l)
    IN [k \in 1..Len(ex) |->
           <<ex[k], Len(commands), ScriptCommand_str(commands[ex[k] + 1])>>]

C25_NoSurface ==
    /\ [](~browser_window => effects = <<>>)
    /\ [][ (pc = "cmd" /\ ~browser_window) =>
             IF commands[i + 1].kind = "pause"
             THEN /\ success_count' = success_count + 1
                  /\ errors' = errors /\ error_count' = error_count
                  /\ pc' = "loop"
             ELSE /\ errors' = Append(errors, [type |-> "tuple", index |-> i,
                                               command |-> commands[i + 1],
                                               message |-> "RuntimeError"])
                  /\ error_count' = error_count + 1
                  /\ success_count' = success_count
                  /\ raised' = "none"
                  /\ FailedAt(logs', i)
                  /\ pc' = IF stop_on_error THEN "after" ELSE "loop" ]_vars

Kinds(cmds) == [k \in 1..Len(cmds) |-> cmds[k].kind]

\* load_url, pause, save_text have run without a browser
C25_Witness ==
    /\ pc = "after" /\ ~browser_window
    /\ Kinds(commands) = <<"load_url", "pause", "save_text">>
    /\ Indices(errors) = <<0, 2>>
    /\ success_count = 1 /\ error_count = 2
    /\ effects = <<>>

(***************************************************************************)
(* C30.  The command loaded for a `save html <tag>` line has filename      *)
(* 'page.html' and path '.', whatever the tag; all writes of such commands *)
(* in a run go to that one file, in script order, so the file holds what   *)
(* the last of them wrote.                                                 *)
(***************************************************************************)
IsSaveHtmlWrite(e) == e.op = "write" /\ commands[e.by + 1].kind = "save_html"

C30_SaveHtmlTagIgnored ==
    (parsed.ok /\ script = parsed.value /\ AllAccepted) =>
        /\ \A k \in 1..Len(commands) :
             script["commands"][k]["command"] = Name("save_html") =>
                 /\ commands[k].filename = Str(PAGE_HTML)
                 /\ commands[k].path = Str(DOT)
        /\ \A q \in 1..Len(effects) :
             IsSaveHtmlWrite(effects[q]) =>
                 /\ effects[q].filename = Str(PAGE_HTML)
                 /\ effects[q].path = Str(DOT)
                 /\ \A p \in 1..(q - 1) :
                      IsSaveHtmlWrite(effects[p]) => effects[p].by < effects[q].by

\* `SAVE HTML a` and `save html b` both ran: two writes of ./page.html
C30_Witness ==
    /\ pc = "idle" /\ parsed.ok /\ script = parsed.value
    /\ script["commands"] = <<[command |-> Name("save_html"), tag |-> Str(<<"a">>)],
                              [command |-> Name("save_html"), tag |-> Str(<<"b">>)]>>
    /\ effects = <<[op |-> "write", path |-> Str(DOT), filename |-> Str(PAGE_HTML), by |-> 0],
                   [op |-> "write", path |-> Str(DOT), filename |-> Str(PAGE_HTML), by |-> 1]>>

(***************************************************************************)
(* C26.  A call of _wait_for_load returns.  It polls in steps of 50 ms     *)
(* while the signal has not come and fewer than 30 000 ms (600 polls) have *)
(* passed; when no Qt call raised, it leaves the loop with the handler     *)
(* disconnected, logs the timeout warning exactly when the signal never    *)
(* came, and returns after 20 settle steps.  It never raises.              *)
(***************************************************************************)
WaitWarned(w) ==
    \E p \in 1..Len(w.log) : w.log[p] = [level |-> "WARNING",
                                         msg |-> "Page load timeout - continuing anyway"]

Polls(w) == w.elapsed_ms \div POLL_INTERVAL_MS

WaitSafe ==
    load_wait /= NoWait =>
        /\ load_wait.elapsed_ms = Polls(load_wait) * POLL_INTERVAL_MS
        /\ Polls(load_wait) <= 600
        /\ load_wait.elapsed_ms <= TIMEOUT_MS
        /\ (load_wait.pc = "settle" \/ (load_wait.pc = "returned" /\ load_wait.elapsed_ms > 0
                                           /\ ~load_wait.caught)) =>
              /\ load_wait.load_finished \/ load_wait.elapsed_ms = TIMEOUT_MS
              /\ WaitWarned(load_wait) <=> ~load_wait.load_finished
              /\ ~load_wait.connected
        /\ (load_wait.pc = "returned" /\ load_wait.elapsed_ms > 0 /\ ~load_wait.caught) =>
              load_wait.settle = SETTLE_STEPS

BeforeHash(line) ==
    IF \E k \in 1..Len(line) : line[k] = HASH
    THEN SubSeq(line, 1, (CHOOSE k \in 1..Len(line) :
                             line[k] = HASH /\ \A m \in 1..(k - 1) : line[m] /= HASH) - 1)
    ELSE line

\* the first non-blank character of the line is '#'
StartsComment(line) ==
    \E k \in 1..Len(line) : line[k] = HASH /\ \A m \in 1..(k - 1) : IsSpace(line[m])

NothingParsed == [ok |-> TRUE, value |-> [version |-> "1.0", commands |-> <<>>]]

C27_CommentsTextual ==
    script_text /= NoText =>
        /\ parsed = SimpleScriptParser_parse(BeforeHash(script_text))
        /\ StartsComment(script_text) => parsed = NothingParsed
        /\ script_text = L_save_text_hash =>
             /\ parsed.ok
             /\ parsed.value["commands"] =
                    <<[command |-> Name("save_text"), tag |-> Str(<<"a">>)]>>
        /\ script_text = L_load_hash =>
             /\ parsed.ok
             /\ parsed.value["commands"] =
                    <<[command |-> Name("load_url"), url |-> Str(<<"u">>),
                       wait_for_load |-> Bool(TRUE)]>>

\* save text "a#b" was parsed
C27_Witness ==
    /\ script_text = L_save_text_hash
    /\ parsed.ok
    /\ parsed.value["commands"][1]["tag"] = Str(<<"a">>)

(***************************************************************************)
(* C28.  _split_command: a double quote toggles in_quotes and goes into no *)
(* part; no part is empty; the parts, concatenated, are the characters of  *)
(* the line without the quotes and the blanks outside quotes, in order;    *)
(* and two neighbouring kept characters are in different parts exactly     *)
(* when a blank outside quotes stands between them.                        *)
(***************************************************************************)
\* character k of the line stands between an odd number of quotes before it
InQuotes(line, k) == Len(SelectSeq(SubSeq(line, 1, k - 1), LAMBDA c : c = QUOTE)) % 2 = 1

Separates(line, k) == IsSpace(line[k]) /\ ~InQuotes(line, k)

\* positions of the characters that go into parts, in order
RECURSIVE KeptFrom(_, _)
KeptFrom(line, k) ==
    IF k > Len(line) THEN <<>>
    ELSE IF line[k] = QUOTE \/ Separates(line, k) THEN KeptFrom(line, k + 1)
    ELSE <<k>> \o KeptFrom(line, k + 1)

RECURSIVE Concat(_)
Concat(ps) == IF ps = <<>> THEN <<>> ELSE Head(ps) \o Concat(Tail(ps))

\* number of characters in the first t parts
EndOf(ps, t) == Len(Concat(SubSeq(ps, 1, t)))

C28_Tokenizer ==
    split /= NoSplit =>
        LET line == split.line
            ps == split.parts
            kept == KeptFrom(line, 1)
        IN /\ \A t \in 1..Len(ps) : ps[t] /= <<>>
           /\ \A t \in 1..Len(ps) : \A c \in 1..Len(ps[t]) : ps[t][c] /= QUOTE
           /\ Concat(ps) = [j \in 1..Len(kept) |-> line[kept[j]]]
           /\ \A j \in 1..(Len(kept) - 1) :
                (\E t \in 1..(Len(ps) - 1) : EndOf(ps, t) = j)
                    <=> \E m \in (kept[j] + 1)..(kept[j + 1] - 1) : Separates(line, m)

\* `"a "a` : one part holding a quoted blank
C28_Witness ==
    /\ split.line = <<QUOTE, "a", " ", QUOTE>>
    /\ split.parts = << <<"a", " ">> >>

(***************************************************************************)
(* C29.  The tag of a save_text command is None or a non-empty string of   *)
(* alphanumerics and underscores with no underscore at either end;         *)
(* sanitizing it again changes nothing; a tag with nothing left after      *)
(* sanitization is None, and the file name written then has no tag part.   *)
(***************************************************************************)
CleanTag(t) ==
    \/ t = None
    \/ /\ t.t = "str" /\ t.v /= <<>>
       /\ \A c \in 1..Len(t.v) : IsAlnum(t.v[c]) \/ t.v[c] = "_"
       /\ t.v[1] /= "_" /\ t.v[Len(t.v)] /= "_"

HasAlnum(r) == r /= None /\ \E c \in 1..Len(r.v) : IsAlnum(r.v[c])

C29_TagSanitized ==
    /\ \A k \in 1..Len(commands) :
         commands[k].kind = "save_text" =>
             /\ CleanTag(commands[k].tag)
             /\ SaveTextCommand_sanitize_tag(commands[k].tag) = commands[k].tag
             /\ AllAccepted =>
                  (commands[k].tag = None
                      <=> ~HasAlnum(Get(script["commands"][k], "tag", None)))
    /\ \A q \in 1..Len(effects) :
         LET cmd == commands[effects[q].by + 1] IN
         cmd.kind = "save_text" =>
             IF cmd.tag = None
             THEN "tag" \notin DOMAIN effects[q].filename
             ELSE /\ "tag" \in DOMAIN effects[q].filename
                  /\ effects[q].filename.tag = cmd.tag.v

\* the tag ' _-' leaves nothing: no tag, and a file name without tag part
C29_Witness ==
    /\ "commands" \in DOMAIN script
    /\ script["commands"] = <<[command |-> Name("save_text"), tag |-> Str(<<" ", "_", "-">>)]>>
    /\ Len(commands) = 1 /\ commands[1].tag = None
    /\ Len(effects) = 1
    /\ effects[1].filename = [stamp |-> "now", ext |-> ".txt"]

(***************************************************************************)
(* C31.  As claimed: when every pause() issued during a run is followed    *)
(* by a resume() or a stop(), the run reaches its summary and execute()    *)
(* returns a boolean.                                                      *)
(***************************************************************************)
\* the control entries logged since the run began
CtlInRun(l) ==
    IF StartPos(l) = 0 THEN <<>>
    ELSE SelectSeq(SubSeq(l, StartPos(l) + 1, Len(l)), LAMBDA e : e.msg \in CtlMsgs)

\* the last control call of the run in progress was pause()
PausePending ==
    /\ pc /= "idle"
    /\ CtlInRun(logs) /= <<>>
    /\ CtlInRun(logs)[Len(CtlInRun(logs))].msg = "Script paused"

C31_Terminates ==
    [](PausePending => <>~PausePending)
        => ((pc /= "idle") ~> (pc = "idle" /\ result \in {"True", "False"}))

(***************************************************************************)
(* C32.  execute() leaves is_paused as it finds it; a run on a non-empty   *)
(* script that begins with the flag set waits at the checkpoint of command *)
(* 0 with nothing executed, and leaves the wait only after a resume() or   *)
(* stop().                                                                 *)
(***************************************************************************)
C32_PauseOutlivesRuns ==
    /\ [][ (pc = "idle" /\ pc' = "loop") => is_paused' = is_paused ]_vars
    /\ [](( /\ pc /= "idle" /\ is_paused /\ is_running
            /\ CtlInRun(logs) = <<>> /\ StartPos(logs) > 0 /\ commands /= <<>> ) =>
              /\ pc \in {"loop", "pause_wait"}
              /\ i = 0
              /\ Executed(logs) = <<>>)
    /\ [][ Blocked => pc' = "pause_wait" ]_vars
    /\ [][ (Blocked /\ ~Blocked') => Len(CtlInRun(logs')) = Len(CtlInRun(logs)) + 1 ]_vars

\* pause() while idle, then execute(): the run waits before command 0
C32_Witness ==
    /\ Blocked
    /\ Len(logs) = 2
    /\ logs[1].msg = "Script paused"
    /\ logs[2].msg = "Starting script execution"
    /\ i = 0 /\ commands /= <<>>

(***************************************************************************)
(* C33.  execute() sets is_running whatever it was and starts at index 0;  *)
(* a run in which stop() is not called is never stopped, whatever stop()   *)
(* calls came before it.                                                   *)
(***************************************************************************)
C33_IdleStopForgotten ==
    /\ [][ (pc = "idle" /\ pc' = "loop") => (is_running' /\ i' = 0) ]_vars
    /\ []((pc /= "idle" /\ ~StopIssued(logs)) =>
             /\ is_running
             /\ Count(logs, {"Script execution stopped by user"}) = 0)

\* stop() while idle, then a run of two commands, both executed
C33_Witness ==
    /\ pc = "idle" /\ result = "True"
    /\ logs /= <<>> /\ logs[1].msg = "Script stopped"
    /\ Len(commands) = 2
    /\ Executed(logs) = <<0, 1>>

(***************************************************************************)
(* C34.  A run ended early by stop() in which nothing failed returns True  *)
(* with an empty get_errors(), although the commands from the stop point   *)
(* on never ran: at the return the result is the one of a completed run.   *)
(***************************************************************************)
StoppedEarly(l) == \E k \in 0..Len(commands) : StoppedByUser(l, k)
NothingFailed(l) == Count(l, {"Command failed"}) = 0

C34_StoppedRunReturnsTrue ==
    [][ (Returning /\ StoppedEarly(logs) /\ NothingFailed(logs)) =>
          /\ result' = "True"
          /\ get_errors(errors').items = <<>>
          /\ Len(Executed(logs)) < Len(commands)
          /\ \A k \in 0..(Len(commands) - 1) :
               StoppedByUser(logs, k) =>
                 \A n \in 1..Len(Executed(logs)) : Executed(logs)[n] < k ]_vars

\* two commands, stopped while the first one ran: True, no error, and
\* the second command never executed
C34_Witness ==
    /\ pc = "idle" /\ result = "True" /\ errors = <<>>
    /\ Len(commands) = 2
    /\ Executed(logs) = <<0>>
    /\ StoppedByUser(logs, 1)
    /\ NothingFailed(logs)

(***************************************************************************)
(* C35.  Load errors do not survive a run: execute() discards at its start *)
(* the load errors the executor holds, so a run of a script some of whose  *)
(* records failed to load returns True with an empty get_errors() whenever *)
(* every loaded command succeeds.                                          *)
(***************************************************************************)
HoldsLoadError(errs) == \E k \in 1..Len(errs) : errs[k].type = "str"
PartlyLoaded ==
    /\ script /= NoScript
    /\ "commands" \in DOMAIN script
    /\ Len(commands) < Len(script["commands"])

C35_LoadErrorsDiscarded ==
    /\ [][ (Starting /\ HoldsLoadError(errors)) => get_errors(errors').items = <<>> ]_vars
    /\ [](pc /= "idle" => ~HoldsLoadError(errors))
    /\ [][ (Returning /\ PartlyLoaded /\ Failing(logs) = <<>>) =>
             result' = "True" /\ get_errors(errors').items = <<>> ]_vars

\* one record of two failed to load; the caller read the load error, then
\* the run of the one loaded command returned True with no error
C35_Witness ==
    /\ pc = "idle" /\ result = "True" /\ errors = <<>>
    /\ PartlyLoaded /\ Len(commands) = 1
    /\ Executed(logs) = <<0>> /\ Failing(logs) = <<>>
    /\ returned /= NoReturned /\ HoldsLoadError(returned.items)

(***************************************************************************)
(* C36.  As claimed: the is_running component of get_progress() is true    *)
(* if and only if a call of execute() is in progress, also after stop()    *)
(* has been requested.                                                     *)
(***************************************************************************)
C36_AsClaimed ==
    get_progress(current_index, commands, is_running)[3] = (pc /= "idle")

(***************************************************************************)
(* C36, amended.  get_progress().is_running is true if and only if a call  *)
(* of execute() is in progress and stop() has not been called since it     *)
(* began: it is false before the first run and after execute() returns,    *)
(* and false from the moment stop() is requested, even while a command of  *)
(* the run is still executing.                                             *)
(***************************************************************************)
C36_RunningUntilStopped ==
    get_progress(current_index, commands, is_running)[3]
        = (pc /= "idle" /\ ~StopIssued(logs))

\* stop() arrived while command 0 executes: the command is still running
\* and the flag is already false
C36_Witness ==
    /\ pc = "cmd" /\ i = 0
    /\ Executed(logs) = <<0>>
    /\ StopIssued(logs)
    /\ ~get_progress(current_index, commands, is_running)[3]

(***************************************************************************)
(* C37.  A failure raised by the on_progress callback is treated as a      *)
(* failure of the command about to run: the command is not executed, an    *)
(* (index, command, message) entry is recorded for it, stop_on_error       *)
(* decides whether the run goes on with the next command, the failure does *)
(* not leave execute(), and the run returns False.                         *)
(***************************************************************************)
\* the step in which the callback raises instead of returning
CallbackFails == pc = "try" /\ on_progress /\ pc' /= "try" /\ pc' /= "cmd"

\* an entry of errs for a command that was never entered
SkippedEntry(errs, l) ==
    \E k \in 1..Len(errs) :
        /\ errs[k].type = "tuple"
        /\ \A n \in 1..Len(Executed(l)) : Executed(l)[n] /= errs[k].index

C37_CallbackFailure ==
    /\ [][ CallbackFails =>
             /\ \E exc \in CallbackOutcomes \ {"ok"} :
                  errors' = Append(errors, [type |-> "tuple", index |-> i,
                                            command |-> commands[i + 1],
                                            message |-> exc])
             /\ Executed(logs') = Executed(logs)
             /\ effects' = effects
             /\ success_count' = success_count
             /\ error_count' = error_count + 1
             /\ FailedAt(logs', i)
             /\ raised' = raised
             /\ IF stop_on_error
                THEN pc' = "after" /\ logs'[Len(logs')].msg = "Stopping on error"
                ELSE pc' = "loop" /\ i' = i + 1 ]_vars
    /\ [][ (Returning /\ SkippedEntry(errors, logs)) =>
             result' = "False" /\ get_errors(errors').items = errors ]_vars

\* the callback failed for command 0 of two with stop_on_error off: the
\* run went on, command 1 was executed, and the run returned False
C37_Witness ==
    /\ pc = "idle" /\ result = "False" /\ ~stop_on_error
    /\ Len(commands) = 2
    /\ Len(errors) = 1 /\ errors[1].index = 0 /\ errors[1].message = "ValueError"
    /\ Executed(logs) = <<1>>
    /\ Len(progress) = 2
    /\ SkippedEntry(errors, logs)

(***************************************************************************)
(* C38.  As claimed: a load of data without a 'commands' key raises and    *)
(* leaves the command list and the error list as they were before it.      *)
(***************************************************************************)
\* the step of a load_from_json call on data that has no 'commands' key
FailedLoad ==
    /\ pc = "idle" /\ script' /= script
    /\ script' /= NoScript /\ "commands" \notin DOMAIN script'

C38_AsClaimed ==
    [][ FailedLoad =>
          raised' = "ValueError" /\ commands' = commands /\ errors' = errors ]_vars

(***************************************************************************)
(* C38, amended.  A failed load empties the executor: when load_from_json  *)
(* is given data without a 'commands' key it raises, and the previously    *)
(* loaded command list and error list have been replaced by empty lists.   *)
(***************************************************************************)
C38_FailedLoadEmpties ==
    /\ [][ FailedLoad =>
             /\ raised' = "ValueError"
             /\ commands' = <<>> /\ errors' = <<>>
             /\ UNCHANGED <<current_index, is_running, is_paused, logs>> ]_vars
    /\ [](( script /= NoScript /\ "commands" \notin DOMAIN script /\ pc = "idle"
            /\ raised = "ValueError" ) => commands = <<>>)

\* a script of two records was loaded and run, the caller read an error
\* list that was not empty, then a load without 'commands' failed: both
\* lists are empty
C38_Witness ==
    /\ pc = "idle" /\ raised = "ValueError"
    /\ script /= NoScript /\ "commands" \notin DOMAIN script
    /\ commands = <<>> /\ errors = <<>>
    /\ current_index = 1
    /\ returned /= NoReturned /\ returned.items /= <<>>

(***************************************************************************)
(* C39.  navigate succeeds whatever flag loadFinished delivers: a signal   *)
(* with ok = False ends the wait in the pass that receives it, like one    *)
(* with ok = True; the wait then settles and returns without the timeout   *)
(* warning, and the command logs its completion and returns normally, the  *)
(* outcome the executor counts as a success.                               *)
(***************************************************************************)
Delivered(w) ==
    \E p \in 1..Len(w.log) : w.log[p].msg = "Page load finished"

\* the pass of the while loop that receives the signal
Receiving ==
    /\ load_wait /= NoWait /\ load_wait.pc = "poll"
    /\ ~Delivered(load_wait) /\ Delivered(load_wait')

C39_FlagIgnored ==
    /\ [][ Receiving =>
             /\ load_wait'.load_finished
             /\ load_wait'.pc = "poll"
             /\ load_wait'.elapsed_ms = load_wait.elapsed_ms + POLL_INTERVAL_MS ]_vars
    /\ [][ (load_wait /= NoWait /\ Delivered(load_wait) /\ load_wait.pc = "poll") =>
             load_wait'.pc /= "poll" ]_vars
    /\ [](( load_wait /= NoWait /\ Delivered(load_wait) ) =>
            /\ load_wait.load_finished
            /\ ~WaitWarned(load_wait)
            /\ (load_wait.pc = "returned" /\ ~load_wait.caught) =>
                 /\ load_wait.settle = SETTLE_STEPS
                 /\ ~load_wait.connected
                 /\ LoadURLCommand_after_wait(load_wait).outcome = "ok"
                 /\ LoadURLCommand_after_wait(load_wait).outcome
                      \in Command_execute([kind |-> "load_url"], TRUE)
                 /\ LoadURLCommand_after_wait(load_wait).msg
                      = CompletionMsg([kind |-> "load_url"]))
    /\ (load_wait /= NoWait /\ Delivered(load_wait)) ~> (load_wait.pc = "returned")

\* loadFinished(False) came in the third pass: the wait ended there,
\* settled and returned, with no warning
C39_Witness ==
    /\ load_wait.pc = "returned"
    /\ ~load_wait.caught
    /\ Delivered(load_wait)
    /\ load_wait.load_finished /\ ~load_wait.load_success
    /\ load_wait.elapsed_ms = 3 * POLL_INTERVAL_MS
    /\ load_wait.settle = SETTLE_STEPS
    /\ ~WaitWarned(load_wait)

(***************************************************************************)
(* C40.  In every "Line n: reason" error of the line parser, n is the      *)
(* 1-based position of the offending line in the script text as given to   *)
(* the parser, also when the text starts with blank lines: the errors of a *)
(* failed parse are the bad lines of the given text, each with its own     *)
(* position and reason, in order.                                          *)
(***************************************************************************)
\* the lines of the text as given, before any stripping
GivenLines(text) == Split(text, NL)

PositionsInText(text) ==
    LET lines == GivenLines(text)
        E[n \in 0..Len(lines)] ==
            IF n = 0 THEN <<>>
            ELSE IF BadLine(lines[n]) THEN Append(E[n - 1], <<n, Reason(lines[n])>>)
            ELSE E[n - 1]
    IN E[Len(lines)]

C40_PositionInText ==
    (script_text /= NoText /\ ~parsed.ok) =>
        [k \in 1..Len(parsed.errors) |->
            <<parsed.errors[k].line, parsed.errors[k].reason>>]
          = PositionsInText(script_text)

====
